---- MODULE Spec2Model ----
(***************************************************************************)
(* A model of the flo / enterprise-ai-sdlc task control plane:             *)
(*   - the Task status machine and the task Registry (pkg/task),           *)
(*   - the eas_task_claim / eas_task_complete tool handlers (pkg/tools),   *)
(*   - the `flo work` command with quota failover (cmd/flo/cmd/work.go),   *)
(*   - the parallel orchestration loop (RunParallel).                      *)
(*                                                                         *)
(* The Registry stores *Task pointers: Get returns the stored pointer and  *)
(* Add/Update store the pointer they are given.  A caller that writes to a *)
(* task it obtained from Get (or gave to Add) therefore writes to the      *)
(* stored task.  The model keeps the registry as a map id -> task value    *)
(* and models such a write as an in-place change of the stored value       *)
(* (SetStatusStored, SetDepsStored); an Add/Update of a task built with    *)
(* task.New takes a fresh value.                                           *)
(***************************************************************************)
EXTENDS Naturals, Sequences, FiniteSets, TLC

VARIABLES
    tasks,      \* Registry.tasks: map id -> task (a function on the stored ids)
    last,       \* the last operation, the id it was about and the error it returned
    readyOut,   \* the ids of the tasks the last GetReady call returned
    orch,       \* RunParallel's loop: where it is and the ready tasks left to hand out
    sem,        \* the number of elements in RunParallel's sem channel
    running,    \* for each task id, the number of goroutines executing the task
    waitBatch,  \* whether the loop waits for its batch (the sync.WaitGroup variant)
    work,       \* the `flo work` run: its position, its task's routing, its results
    tracker,    \* the quota.Tracker of the run
    log,        \* the calls the run has made to the backends and to the tracker
    now,        \* the clock (time.Now), in hours
    marked,     \* per backend, the last time it was marked exhausted and until when
    sessions    \* the backend sessions that are open, with their working directory

orchVars == <<orch, sem, running, waitBatch>>

workVars == <<work, tracker, log, now, marked, sessions>>

vars == <<tasks, last, readyOut, orch, sem, running, waitBatch, work, tracker, log, now, marked, sessions>>

(***************************************************************************)
(* Bounds                                                                  *)
(***************************************************************************)
\* the longest Deps slice a caller writes
MaxDeps == 2

\* the task ids callers use
IDs == {"A", "B", "C"}

\* RunParallel's maxAgents
MaxAgents == 2

\* the longest time, in hours, a backend takes to answer
MaxDur == 1

\* the most Record calls one backend gets in a run of the tracker
MaxRecords == 2

\* the last hour of the clock
MaxTime == 3

\* the longest blockDuration, in hours, a caller passes to RecordError
MaxBlock == 2

(***************************************************************************)
(* Task (pkg/task)                                                         *)
(***************************************************************************)
StatusPending == "pending"
StatusInProgress == "in_progress"
StatusComplete == "complete"
StatusFailed == "failed"

Statuses == {StatusPending, StatusInProgress, StatusComplete, StatusFailed}

NoErr == "none"

\* the Deps slices over the ids, without repetition
DepLists == {s \in UNION {[1..n -> IDs] : n \in 0..MaxDeps} :
                \A i, j \in DOMAIN s : i # j => s[i] # s[j]}

\* task.New(id, title), then Deps set by the caller
New(id, title, deps) ==
    [id |-> id, title |-> title, status |-> StatusPending, deps |-> deps]

\* Status.IsValid
IsValid(s) == s \in Statuses

\* Task.Validate
Validate(t) ==
    IF t.id = "" THEN "ValidationError"
    ELSE IF t.title = "" THEN "ValidationError"
    ELSE IF ~IsValid(t.status) THEN "ValidationError"
    ELSE NoErr

\* the transitions Task.SetStatus accepts
ValidTransitions ==
    { <<StatusPending, StatusInProgress>>,
      <<StatusInProgress, StatusComplete>>,
      <<StatusInProgress, StatusFailed>>,
      <<StatusFailed, StatusPending>> }

\* the table of TestStatusTransitions
TestStatusTransitions ==
    { [from |-> StatusPending, to |-> StatusInProgress, wantErr |-> FALSE],
      [from |-> StatusPending, to |-> StatusComplete, wantErr |-> TRUE],
      [from |-> StatusInProgress, to |-> StatusComplete, wantErr |-> FALSE],
      [from |-> StatusInProgress, to |-> StatusFailed, wantErr |-> FALSE],
      [from |-> StatusComplete, to |-> StatusPending, wantErr |-> TRUE],
      [from |-> StatusComplete, to |-> StatusInProgress, wantErr |-> TRUE],
      [from |-> StatusFailed, to |-> StatusPending, wantErr |-> FALSE] }

\* a SetStatus that also accepts a transition to the status the task has
SetStatusAcceptingSelf(t, to) ==
    IF <<t.status, to>> \in ValidTransitions \/ t.status = to
    THEN [err |-> NoErr, task |-> [t EXCEPT !.status = to]]
    ELSE [err |-> "InvalidTransition", task |-> t]

\* Task.SetStatus(to) on task t: the error and the task afterwards
SetStatus(t, to) ==
    IF <<t.status, to>> \in ValidTransitions
    THEN [err |-> NoErr, task |-> [t EXCEPT !.status = to]]
    ELSE [err |-> "InvalidTransition", task |-> t]

(***************************************************************************)
(* Registry (pkg/task/registry.go)                                         *)
(***************************************************************************)
RECURSIVE validateDepsFrom(_, _, _)
validateDepsFrom(reg, deps, i) ==
    IF i > Len(deps) THEN NoErr
    ELSE IF deps[i] \notin DOMAIN reg THEN "UnknownDependency"
    ELSE validateDepsFrom(reg, deps, i + 1)

\* Registry.validateDepsLocked
validateDepsLocked(reg, t) == validateDepsFrom(reg, t.deps, 1)

RECURSIVE allDepsCompleteFrom(_, _, _)
allDepsCompleteFrom(reg, deps, i) ==
    IF i > Len(deps) THEN TRUE
    ELSE IF deps[i] \notin DOMAIN reg \/ reg[deps[i]].status # StatusComplete
         THEN FALSE
    ELSE allDepsCompleteFrom(reg, deps, i + 1)

\* a dependency check that skips the deps entries that are not stored
allDepsCompleteSkippingMissing(reg, t) ==
    \A i \in DOMAIN t.deps :
        t.deps[i] \in DOMAIN reg => reg[t.deps[i]].status = StatusComplete

\* Registry.allDepsCompleteLocked
allDepsCompleteLocked(reg, t) == allDepsCompleteFrom(reg, t.deps, 1)

\* Registry.GetReady: the ids of the tasks returned
GetReady(reg) ==
    {id \in DOMAIN reg :
        reg[id].status = StatusPending /\ allDepsCompleteLocked(reg, reg[id])}

\* Registry.checkCircularLocked: the depth-first walk with one visited map
\* shared by all branches; returns whether a cycle was found and the map
RECURSIVE checkCircularFrom(_, _, _, _, _)
checkCircularFrom(reg, startID, deps, i, visited) ==
    IF i > Len(deps) THEN [err |-> FALSE, visited |-> visited]
    ELSE LET depID == deps[i] IN
         IF depID = startID THEN [err |-> TRUE, visited |-> visited]
         ELSE IF depID \in visited
              THEN checkCircularFrom(reg, startID, deps, i + 1, visited)
         ELSE IF depID \notin DOMAIN reg
              THEN checkCircularFrom(reg, startID, deps, i + 1, visited \cup {depID})
         ELSE LET r == checkCircularFrom(reg, startID, reg[depID].deps, 1,
                                         visited \cup {depID})
              IN IF r.err THEN r
                 ELSE checkCircularFrom(reg, startID, deps, i + 1, r.visited)

\* a cycle check that looks at the direct deps only
checkCircularDirectOnly(reg, startID, deps) ==
    IF \E i \in DOMAIN deps : deps[i] = startID
    THEN "CircularDependency" ELSE NoErr

\* Registry.checkCircularLocked
checkCircularLocked(reg, startID, deps) ==
    IF checkCircularFrom(reg, startID, deps, 1, {}).err
    THEN "CircularDependency" ELSE NoErr

\* an Add that stores over a task with the same id
RegAddOverwriting(reg, t) ==
    IF Validate(t) # NoErr THEN [err |-> Validate(t), reg |-> reg]
    ELSE IF validateDepsLocked(reg, t) # NoErr
         THEN [err |-> validateDepsLocked(reg, t), reg |-> reg]
    ELSE [err |-> NoErr, reg |-> (t.id :> t) @@ reg]

\* Registry.Add: the error and the registry afterwards
RegAdd(reg, t) ==
    IF Validate(t) # NoErr THEN [err |-> Validate(t), reg |-> reg]
    ELSE IF t.id \in DOMAIN reg THEN [err |-> "DuplicateID", reg |-> reg]
    ELSE IF validateDepsLocked(reg, t) # NoErr
         THEN [err |-> validateDepsLocked(reg, t), reg |-> reg]
    ELSE [err |-> NoErr, reg |-> (t.id :> t) @@ reg]

\* Registry.Get
Get(reg, id) ==
    IF id \notin DOMAIN reg THEN [err |-> "NotFound", task |-> <<>>]
    ELSE [err |-> NoErr, task |-> reg[id]]

\* an Update that stores the task before it looks for a cycle
RegUpdateStoreFirst(reg, t) ==
    IF Validate(t) # NoErr THEN [err |-> Validate(t), reg |-> reg]
    ELSE IF t.id \notin DOMAIN reg THEN [err |-> "NotFound", reg |-> reg]
    ELSE IF validateDepsLocked(reg, t) # NoErr
         THEN [err |-> validateDepsLocked(reg, t), reg |-> reg]
    ELSE [err |-> IF checkCircularLocked(reg, t.id, t.deps) # NoErr
                  THEN "CircularDependency" ELSE NoErr,
          reg |-> (t.id :> t) @@ reg]

\* Registry.Update
RegUpdate(reg, t) ==
    IF Validate(t) # NoErr THEN [err |-> Validate(t), reg |-> reg]
    ELSE IF t.id \notin DOMAIN reg THEN [err |-> "NotFound", reg |-> reg]
    ELSE IF validateDepsLocked(reg, t) # NoErr
         THEN [err |-> validateDepsLocked(reg, t), reg |-> reg]
    ELSE IF checkCircularLocked(reg, t.id, t.deps) # NoErr
         THEN [err |-> "CircularDependency", reg |-> reg]
    ELSE [err |-> NoErr, reg |-> (t.id :> t) @@ reg]

\* the stored tasks that list id in their Deps
Dependents(reg, id) ==
    {x \in DOMAIN reg : \E i \in DOMAIN reg[x].deps : reg[x].deps[i] = id}

\* Registry.GetDependents
GetDependents(reg, id) ==
    IF id \notin DOMAIN reg THEN [err |-> "NotFound", tasks |-> {}]
    ELSE [err |-> NoErr, tasks |-> Dependents(reg, id)]

\* Registry.Delete
RegDelete(reg, id) ==
    IF id \notin DOMAIN reg THEN [err |-> "NotFound", reg |-> reg]
    ELSE IF Dependents(reg, id) # {} THEN [err |-> "HasDependents", reg |-> reg]
    ELSE [err |-> NoErr, reg |-> [x \in DOMAIN reg \ {id} |-> reg[x]]]

(***************************************************************************)
(* Tool handlers (pkg/tools: eas_task_claim, eas_task_complete)            *)
(***************************************************************************)
\* Registry.GetDeps: the stored tasks among t's Deps (an unresolved entry is
\* skipped)
GetDeps(reg, id) ==
    {reg[id].deps[i] : i \in {j \in DOMAIN reg[id].deps : reg[id].deps[j] \in DOMAIN reg}}

\* t.SetStatus(to) followed by taskReg.Update(t), t being the stored pointer:
\* SetStatus has changed the stored task before Update looks at it
SetStatusAndUpdate(reg, id, to) ==
    LET r == SetStatus(reg[id], to) IN
    IF r.err # NoErr THEN [err |-> r.err, reg |-> reg]
    ELSE LET reg1 == [reg EXCEPT ![id] = r.task]
             u == RegUpdate(reg1, reg1[id])
         IN [err |-> u.err, reg |-> u.reg]

\* handleTaskClaim
handleTaskClaim(reg, id) ==
    IF id \notin DOMAIN reg THEN [err |-> "NotFound", reg |-> reg]
    ELSE IF reg[id].status # StatusPending THEN [err |-> "NotPending", reg |-> reg]
    ELSE IF \E d \in GetDeps(reg, id) : reg[d].status # StatusComplete
         THEN [err |-> "DepsIncomplete", reg |-> reg]
    ELSE SetStatusAndUpdate(reg, id, StatusInProgress)

\* what TestRunner.Run reports; "nil" is a handler built without a runner
RunnerOutcomes == {"nil", "pass", "fail", "error"}

\* a handleTaskComplete that does not look at what the test runner reports
handleTaskCompleteIgnoringTests(reg, id, runner) ==
    IF id \notin DOMAIN reg THEN [err |-> "NotFound", reg |-> reg]
    ELSE IF reg[id].status # StatusInProgress
         THEN [err |-> "NotInProgress", reg |-> reg]
    ELSE SetStatusAndUpdate(reg, id, StatusComplete)

\* handleTaskComplete
handleTaskComplete(reg, id, runner) ==
    IF id \notin DOMAIN reg THEN [err |-> "NotFound", reg |-> reg]
    ELSE IF reg[id].status # StatusInProgress
         THEN [err |-> "NotInProgress", reg |-> reg]
    ELSE IF runner = "error" THEN [err |-> "TestRunError", reg |-> reg]
    ELSE IF runner = "fail" THEN [err |-> "TestsFailed", reg |-> reg]
    ELSE SetStatusAndUpdate(reg, id, StatusComplete)

(***************************************************************************)
(* Operations on the registry                                              *)
(***************************************************************************)
\* the loop before RunParallel is called
OrchIdle ==
    /\ orch = [pc |-> "idle", readyTasks |-> {}]
    /\ sem = 0
    /\ running = <<>>
    /\ waitBatch = FALSE

\* the state of the `flo work` variables when no run was started
WorkIdle ==
    /\ work = [pc |-> "none"]
    /\ tracker = <<>>
    /\ log = <<>>
    /\ now = 0
    /\ marked = <<>>
    /\ sessions = {}

Last(op, id, arg, err) == [op |-> op, id |-> id, arg |-> arg, err |-> err]

\* the Deps slices over the ids of S
DepListsOver(S) == {s \in DepLists : \A i \in DOMAIN s : s[i] \in S}

\* the tasks a caller builds with task.New over the ids of S; an empty id
\* or title fails Validate
FreshTasks(S) ==
    {New(id, "t", deps) : id \in S, deps \in DepListsOver(S)}
        \cup {New(id, "", <<>>) : id \in S}
        \cup {New("", "t", <<>>)}

Add(t) ==
    LET r == RegAdd(tasks, t) IN
    /\ tasks' = r.reg
    /\ last' = Last("Add", t.id, "", r.err)
    /\ UNCHANGED <<readyOut, orchVars, workVars>>

Update(t) ==
    LET r == RegUpdate(tasks, t) IN
    /\ tasks' = r.reg
    /\ last' = Last("Update", t.id, "", r.err)
    /\ UNCHANGED <<readyOut, orchVars, workVars>>

Delete(id) ==
    LET r == RegDelete(tasks, id) IN
    /\ tasks' = r.reg
    /\ last' = Last("Delete", id, "", r.err)
    /\ UNCHANGED <<readyOut, orchVars, workVars>>

\* t, _ := reg.Get(id); t.SetStatus(to): the stored task changes in place
SetStatusStored(id, to) ==
    /\ id \in DOMAIN tasks
    /\ LET r == SetStatus(tasks[id], to) IN
       /\ tasks' = [tasks EXCEPT ![id] = r.task]
       /\ last' = Last("SetStatus", id, to, r.err)
       /\ UNCHANGED <<readyOut, orchVars, workVars>>

\* t.Deps = deps on a pointer obtained from Get or given to Add: the stored
\* task changes in place
SetDepsStored(id, deps) ==
    /\ id \in DOMAIN tasks
    /\ tasks' = [tasks EXCEPT ![id].deps = deps]
    /\ last' = Last("SetDeps", id, "", NoErr)
    /\ UNCHANGED <<readyOut, orchVars, workVars>>

\* reg.Update(t) with the stored pointer
UpdateStored(id) ==
    /\ id \in DOMAIN tasks
    /\ Update(tasks[id])

\* the eas_task_claim tool
TaskClaim(id) ==
    LET r == handleTaskClaim(tasks, id) IN
    /\ tasks' = r.reg
    /\ last' = Last("Claim", id, "", r.err)
    /\ UNCHANGED <<readyOut, orchVars, workVars>>

\* the eas_task_complete tool
TaskComplete(id, runner) ==
    LET r == handleTaskComplete(tasks, id, runner) IN
    /\ tasks' = r.reg
    /\ last' = Last("Complete", id, runner, r.err)
    /\ UNCHANGED <<readyOut, orchVars, workVars>>

\* a GetReady that marks what it returns as handed out
QueryReadyClaiming ==
    /\ readyOut' = GetReady(tasks)
    /\ tasks' = [id \in DOMAIN tasks |->
                   IF id \in GetReady(tasks)
                   THEN [tasks[id] EXCEPT !.status = StatusInProgress]
                   ELSE tasks[id]]
    /\ last' = Last("GetReady", "", "", NoErr)
    /\ UNCHANGED <<orchVars, workVars>>

\* Registry.GetReady called by a client
QueryReady ==
    /\ readyOut' = GetReady(tasks)
    /\ last' = Last("GetReady", "", "", NoErr)
    /\ UNCHANGED <<tasks, orchVars, workVars>>

(***************************************************************************)
(* Spec: the registry's graph operations, from an empty registry           *)
(***************************************************************************)
Init ==
    /\ tasks = <<>>
    /\ last = Last("init", "", "", NoErr)
    /\ readyOut = {}
    /\ OrchIdle
    /\ WorkIdle

Next ==
    \/ \E t \in FreshTasks(IDs) : Add(t)
    \/ \E t \in FreshTasks(IDs) : Update(t)
    \/ \E id \in IDs : Delete(id)
    \/ \E id \in IDs, deps \in DepListsOver(IDs) : SetDepsStored(id, deps)
    \/ \E id \in IDs : UpdateStored(id)

Spec == Init /\ [][Next]_vars

(***************************************************************************)
(* SpecStatus: the status machine, the tools and the registry over two ids *)
(***************************************************************************)
StatusIDs == {"A", "B"}

NextStatus ==
    \/ \E t \in FreshTasks(StatusIDs) : Add(t)
    \/ \E t \in FreshTasks(StatusIDs) : Update(t)
    \/ \E id \in StatusIDs : Delete(id)
    \/ \E id \in StatusIDs, to \in Statuses : SetStatusStored(id, to)
    \/ \E id \in StatusIDs, deps \in DepListsOver(StatusIDs) : SetDepsStored(id, deps)
    \/ \E id \in StatusIDs : TaskClaim(id)
    \/ \E id \in StatusIDs, runner \in RunnerOutcomes : TaskComplete(id, runner)

SpecStatus == Init /\ [][NextStatus]_vars

(***************************************************************************)
(* Save and Load (pkg/task/registry.go)                                    *)
(***************************************************************************)
\* the ids of the tasks in files and registries
LoadIDs == {"A", "B"}

\* the longest task list of a file written by hand
MaxFile == 2

\* what os.ReadFile and json.Unmarshal fail on
Unreadable == [read |-> "unreadable", tasks |-> <<>>]
Malformed == [read |-> "malformed", tasks |-> <<>>]

\* a document that is read and parsed: its task list, in file order
Document(list) == [read |-> "ok", tasks |-> list]

\* a task of a file: the JSON object of one Task, whose id, title, status
\* and deps json.Unmarshal gives back as they were written
\* (TestTaskJSONSerialization); deps may name a task that is in no file
FileTasks ==
    {[id |-> id, title |-> "t", status |-> s, deps |-> d] :
        id \in LoadIDs, s \in {StatusPending, StatusComplete},
        d \in {l \in DepLists : Len(l) <= 1}}
      \cup {[id |-> "A", title |-> "", status |-> StatusPending, deps |-> <<>>],
            [id |-> "B", title |-> "t", status |-> "bogus", deps |-> <<>>]}

\* the files Load is given: the task list of a document, in file order
Files == {Document(l) : l \in UNION {[1..n -> FileTasks] : n \in 0..MaxFile}}

\* Registry.Save: the documents it may write, one per iteration order of
\* the map
RegSave(reg) ==
    {Document(f) : f \in
        {g \in [1..Cardinality(DOMAIN reg) -> {reg[x] : x \in DOMAIN reg}] :
            \A i, j \in DOMAIN g : i # j => g[i] # g[j]}}

\* Load's first pass from entry i on: installs the tasks in file order and
\* stops at the first that fails Validate
RECURSIVE loadInstallFrom(_, _, _)
loadInstallFrom(file, i, installed) ==
    IF i > Len(file) THEN [err |-> NoErr, reg |-> installed]
    ELSE IF Validate(file[i]) # NoErr
         THEN [err |-> Validate(file[i]), reg |-> installed]
    ELSE loadInstallFrom(file, i + 1, (file[i].id :> file[i]) @@ installed)

\* Registry.Load: r.tasks is emptied, then filled, then the deps are checked
RegLoad(reg, file) ==
    IF file = Unreadable THEN [err |-> "ReadError", reg |-> reg]
    ELSE IF file = Malformed THEN [err |-> "UnmarshalError", reg |-> reg]
    ELSE LET p == loadInstallFrom(file.tasks, 1, <<>>) IN
         IF p.err # NoErr THEN p
         ELSE IF \E x \in DOMAIN p.reg : validateDepsLocked(p.reg, p.reg[x]) # NoErr
              THEN [err |-> "UnknownDependency", reg |-> p.reg]
         ELSE p

\* reg.Load(path) on the registry in use
Load(file) ==
    LET r == RegLoad(tasks, file) IN
    /\ tasks' = r.reg
    /\ last' = Last("Load", "", file, r.err)
    /\ UNCHANGED <<readyOut, orchVars, workVars>>

\* reg.Save(path); reg2 := NewRegistry(); reg2.Load(path), and reg2 is the
\* registry from then on (TestRegistrySaveLoad)
SaveLoad ==
    \E file \in RegSave(tasks) :
        LET r == RegLoad(<<>>, file) IN
        /\ tasks' = r.reg
        /\ last' = Last("SaveLoad", "", file, r.err)
        /\ UNCHANGED <<readyOut, orchVars, workVars>>

NextLoad ==
    \/ \E t \in FreshTasks(LoadIDs) : Add(t)
    \/ \E id \in LoadIDs, to \in Statuses : SetStatusStored(id, to)
    \/ \E id \in LoadIDs, deps \in DepListsOver(LoadIDs) : SetDepsStored(id, deps)
    \/ \E file \in Files \cup {Unreadable, Malformed} : Load(file)
    \/ SaveLoad

SpecLoad == Init /\ [][NextLoad]_vars

(***************************************************************************)
(* SpecReady: GetReady on every registry content                           *)
(***************************************************************************)
\* the registries over the ids: each id absent, or stored with a status and
\* a Deps slice
Registries ==
    UNION {[S -> {[id |-> "", title |-> "t", status |-> st, deps |-> deps] :
                    st \in Statuses, deps \in DepLists}] : S \in SUBSET IDs}

StoredUnderOwnID(reg) == [x \in DOMAIN reg |-> [reg[x] EXCEPT !.id = x]]

InitReady ==
    /\ tasks \in {StoredUnderOwnID(reg) : reg \in Registries}
    /\ last = Last("init", "", "", NoErr)
    /\ readyOut = {}
    /\ OrchIdle
    /\ WorkIdle

NextReady == QueryReady

SpecReady == InitReady /\ [][NextReady]_vars

(***************************************************************************)
(* Orchestrator.RunParallel                                                *)
(***************************************************************************)
\* the tasks of the orchestration run
OrchIDs == {"T1", "T2", "T3", "T4", "T5"}

RECURSIVE SumOver(_, _)
SumOver(f, S) ==
    IF S = {} THEN 0
    ELSE LET x == CHOOSE y \in S : TRUE IN f[x] + SumOver(f, S \ {x})

\* the goroutines RunParallel has started that have not returned
InFlight == SumOver(running, DOMAIN running)

\* the Priority the tasks of the run were created with
OrchPriority ==
    [id \in OrchIDs |-> IF id \in {"T2", "T4"} THEN 1 ELSE 0]

\* the order in which the tasks of the run were added to the registry
OrchInsertionOrder == <<"T1", "T2", "T3", "T4", "T5">>

\* a send on a channel of capacity cap holding n elements can proceed
SemUnbounded(n, cap) == TRUE

SemHasRoom(n, cap) == n < cap

\* readyTasks := o.taskRegistry.GetReady(); if len(readyTasks) == 0 { break }
OrchQuery ==
    /\ orch.pc = "query"
    /\ orch' = [orch EXCEPT !.pc = IF GetReady(tasks) = {} THEN "done" ELSE "range",
                             !.readyTasks = GetReady(tasks)]
    /\ UNCHANGED <<tasks, last, readyOut, sem, running, waitBatch, workVars>>

\* one iteration of `for _, task := range readyTasks`:
\* sem <- struct{}{} and go func(t *Task) {...}(task)
OrchDispatch(id) ==
    /\ orch.pc = "range"
    /\ id \in orch.readyTasks
    /\ SemHasRoom(sem, MaxAgents)
    /\ sem' = sem + 1
    /\ running' = [running EXCEPT ![id] = @ + 1]
    /\ orch' = [orch EXCEPT !.readyTasks = @ \ {id}]
    /\ UNCHANGED <<tasks, last, readyOut, waitBatch, workVars>>

\* the end of the range loop: wg.Wait() in the WaitGroup variant, then the
\* next iteration of the outer loop
OrchNextBatch ==
    /\ orch.pc = "range"
    /\ orch.readyTasks = {}
    /\ waitBatch => InFlight = 0
    /\ orch' = [orch EXCEPT !.pc = "query"]
    /\ UNCHANGED <<tasks, last, readyOut, sem, running, waitBatch, workVars>>

\* the agent of a running goroutine calls eas_task_claim for its task
AgentClaim(id) ==
    /\ running[id] > 0
    /\ tasks' = handleTaskClaim(tasks, id).reg
    /\ UNCHANGED <<last, readyOut, orchVars, workVars>>

\* the agent of a running goroutine calls eas_task_complete for its task
AgentComplete(id, runner) ==
    /\ running[id] > 0
    /\ tasks' = handleTaskComplete(tasks, id, runner).reg
    /\ UNCHANGED <<last, readyOut, orchVars, workVars>>

\* a goroutine returns: defer func() { <-sem }()
WorkerReturn(id) ==
    /\ running[id] > 0
    /\ running' = [running EXCEPT ![id] = @ - 1]
    /\ sem' = sem - 1
    /\ UNCHANGED <<tasks, last, readyOut, orch, waitBatch, workVars>>

InitOrch ==
    /\ tasks = [id \in OrchIDs |-> New(id, "t", <<>>)]
    /\ last = Last("init", "", "", NoErr)
    /\ readyOut = {}
    /\ orch = [pc |-> "query", readyTasks |-> {}, ctx |-> "live"]
    /\ sem = 0
    /\ running = [id \in OrchIDs |-> 0]
    /\ waitBatch \in BOOLEAN
    /\ WorkIdle

NextOrch ==
    \/ OrchQuery
    \/ \E id \in OrchIDs : OrchDispatch(id)
    \/ OrchNextBatch
    \/ \E id \in OrchIDs : AgentClaim(id)
    \/ \E id \in OrchIDs, runner \in {"nil", "pass"} : AgentComplete(id, runner)
    \/ \E id \in OrchIDs : WorkerReturn(id)

SpecOrch == InitOrch /\ [][NextOrch]_vars

\* the caller cancels the ctx it gave to RunParallel
OrchCancel ==
    /\ orch.ctx = "live"
    /\ orch' = [orch EXCEPT !.ctx = "cancelled"]
    /\ UNCHANGED <<tasks, last, readyOut, sem, running, waitBatch, workVars>>

NextCancel ==
    \/ NextOrch
    \/ OrchCancel

\* RunParallel with a ctx that may be cancelled at any moment
SpecCancel == InitOrch /\ [][NextCancel]_vars

\* RunParallel when every step that can be taken is taken in the end: the
\* loop goes on, and every goroutine's backend run returns
SpecOrchLive ==
    /\ InitOrch
    /\ [][NextOrch]_vars
    /\ WF_vars(OrchQuery)
    /\ WF_vars(\E id \in OrchIDs : OrchDispatch(id))
    /\ WF_vars(OrchNextBatch)
    /\ \A id \in OrchIDs : WF_vars(WorkerReturn(id))

(***************************************************************************)
(* Error texts and routing hints                                           *)
(***************************************************************************)
\* an error is its text, a sequence of words; the nil error has no text
NilErr == <<>>

\* the texts the backends fail with
ErrTexts == { <<"Rate", "Limit", "exceeded">>, <<"connection", "refused">> }

\* strings.ToLower, word by word
ToLowerWord(w) ==
    CASE w = "Rate" -> "rate"
      [] w = "Limit" -> "limit"
      [] w = "Too" -> "too"
      [] w = "Many" -> "many"
      [] w = "Requests" -> "requests"
      [] w = "Quota" -> "quota"
      [] OTHER -> w

ToLower(text) == [i \in DOMAIN text |-> ToLowerWord(text[i])]

\* strings.Contains on word sequences
Contains(text, sub) ==
    \E i \in 0..(Len(text) - Len(sub)) : \A j \in 1..Len(sub) : text[i + j] = sub[j]

\* a quota check that compares the text as it is, without lowering it
isQuotaErrorCaseSensitive(err) ==
    /\ err # NilErr
    /\ \/ Contains(err, <<"429">>)
       \/ Contains(err, <<"rate", "limit">>)
       \/ Contains(err, <<"quota">>)
       \/ Contains(err, <<"too", "many", "requests">>)

\* isQuotaError
isQuotaError(err) ==
    /\ err # NilErr
    /\ LET errStr == ToLower(err) IN
       \/ Contains(errStr, <<"429">>)
       \/ Contains(errStr, <<"rate", "limit">>)
       \/ Contains(errStr, <<"quota">>)
       \/ Contains(errStr, <<"too", "many", "requests">>)

\* a "backend/model" string is kept as strings.Split(s, "/") returns it:
\* the empty string is <<"">>
EmptyHint == <<"">>

TaskModels == { EmptyHint, <<"claude", "sonnet">>, <<"sonnet">> }

TaskFallbacks == { EmptyHint, <<"copilot", "gpt-4">>, <<"claude", "opus">>, <<"gpt-4">> }

\* what task.ParseTaskFile finds in TASK-<id>.md: no file, or its frontmatter
TaskFiles ==
    { [found |-> FALSE, model |-> EmptyHint, fallback |-> EmptyHint],
      [found |-> TRUE, model |-> <<"copilot", "gpt-4">>, fallback |-> EmptyHint],
      [found |-> TRUE, model |-> EmptyHint, fallback |-> <<"copilot", "gpt-4">>] }

(***************************************************************************)
(* quota.Tracker                                                           *)
(***************************************************************************)
BackendNames == {"claude", "copilot", "gpt"}

ClaudeLimit == 50
CopilotLimit == 100
UsageEstimate == 10000

\* time.Hour, in ticks of the clock (a tick is half an hour)
Hour == 2

\* the window the request limits are counted over ("requests per hour")
WindowSize == Hour

\* Tracker.SetLimit
SetLimit(tr, b, n) == [tr EXCEPT !.limits = (b :> n) @@ @]

\* an IsExhausted that reads the is_exhausted flag only
IsExhaustedByFlag(tr, b, t) == b \in tr.isExhausted

\* Tracker.IsExhausted at time t
IsExhausted(tr, b, t) == b \in tr.isExhausted /\ t < tr.retryAfter[b]

\* a Record that counts against the limit of any backend, configured or not
RecordWithDefaultLimit(tr, b, tokens, t) ==
    LET n == tr.requests[b] + 1
        crossed == n >= (IF b \in DOMAIN tr.limits THEN tr.limits[b] ELSE 1)
    IN [tr EXCEPT !.requests[b] = n,
                  !.tokens[b] = @ + tokens,
                  !.isExhausted = IF crossed THEN @ \cup {b} ELSE @,
                  !.retryAfter[b] = IF crossed THEN t + WindowSize ELSE @]

\* Tracker.Record at time t
Record(tr, b, tokens, t) ==
    LET n == tr.requests[b] + 1
        crossed == /\ b \in DOMAIN tr.limits
                   /\ tr.requests[b] < tr.limits[b]
                   /\ n >= tr.limits[b]
    IN [tr EXCEPT !.requests[b] = n,
                  !.tokens[b] = @ + tokens,
                  !.isExhausted = IF crossed THEN @ \cup {b} ELSE @,
                  !.retryAfter[b] = IF crossed THEN t + WindowSize ELSE @]

\* Tracker.RecordError(b, blockDuration) at time t
RecordError(tr, b, blockDuration, t) ==
    [tr EXCEPT !.isExhausted = @ \cup {b}, !.retryAfter[b] = t + blockDuration]

\* the trackers quota.New(path) and Load() give: the usage of earlier runs
\* (a backend marked exhausted less than an hour ago has a retry_after that
\* is still to come, one marked longer ago has one that has passed)
LoadedTrackers ==
    { [limits |-> <<>>, requests |-> r, tokens |-> [b \in BackendNames |-> 0],
       isExhausted |-> {b \in BackendNames : ra[b] # "no"},
       retryAfter |-> [b \in BackendNames |-> IF ra[b] = "later" THEN Hour - 1 ELSE 0]] :
        r \in { q \in [BackendNames -> {0, ClaudeLimit - 1, CopilotLimit - 1}] :
                  /\ q["claude"] \in {0, ClaudeLimit - 1}
                  /\ q["copilot"] \in {0, CopilotLimit - 1}
                  /\ q["gpt"] = 0 },
        ra \in { q \in [BackendNames -> {"no", "passed", "later"}] : q["gpt"] = "no" } }

\* initQuotaTracker
initQuotaTracker(loaded) ==
    SetLimit(SetLimit(loaded, "claude", ClaudeLimit), "copilot", CopilotLimit)

(***************************************************************************)
(* flo work (cmd/flo/cmd/work.go)                                          *)
(***************************************************************************)
\* what a backend answers in one attempt: the first call that fails and the
\* text it fails with, or a result
Outcomes ==
    { [at |-> "mcp", text |-> <<"permission", "denied">>, dur |-> 0] }
      \cup { [at |-> "ok", text |-> NilErr, dur |-> d] : d \in 0..MaxDur }
      \cup { [at |-> a, text |-> e, dur |-> d] :
                a \in {"start", "session", "run", "result"},
                e \in ErrTexts, d \in 0..MaxDur }

NoResult == [nil |-> TRUE, success |-> FALSE, error |-> NilErr]

Event(call, b, arg) == [call |-> call, backend |-> b, arg |-> arg]

\* the model the backend is created with
BackendModel(model) == IF model # "" THEN model ELSE "config"

\* an error handler that marks the backend only when its counter is at the limit
onBackendErrorAtLimitOnly(tr, b, text, t) ==
    IF /\ isQuotaError(text)
       /\ b \in DOMAIN tr.limits
       /\ tr.requests[b] + 1 >= tr.limits[b]
    THEN RecordError(tr, b, Hour, t) ELSE tr

\* if isQuotaError(err) { tracker.RecordError(backendName, time.Hour) }
onBackendError(tr, b, text, t) ==
    IF isQuotaError(text) THEN RecordError(tr, b, Hour, t) ELSE tr

\* runBackend after the IsExhausted check: the backend is created and
\* called; the answer arrives, and the tracker is written, at t + out.dur
contactBackend(tr, b, model, out, t) ==
    IF b \notin {"claude", "copilot"}
    THEN [result |-> NoResult, err |-> <<"unknown", "backend:", b>>,
          tracker |-> tr, events |-> <<>>, now |-> t]
    ELSE IF b = "claude" /\ out.at = "mcp"
    THEN [result |-> NoResult,
          err |-> <<"failed", "to", "generate", "MCP", "config:">> \o out.text,
          tracker |-> tr, events |-> <<>>, now |-> t]
    ELSE IF out.at = "start"
    THEN [result |-> NoResult,
          err |-> <<"failed", "to", "start", "backend:">> \o out.text,
          tracker |-> onBackendError(tr, b, out.text, t + out.dur),
          events |-> <<Event("Start", b, BackendModel(model))>>,
          now |-> t + out.dur]
    ELSE IF out.at = "session"
    THEN [result |-> NoResult,
          err |-> <<"failed", "to", "create", "session:">> \o out.text,
          tracker |-> onBackendError(tr, b, out.text, t + out.dur),
          events |-> <<Event("Start", b, BackendModel(model)),
                       Event("CreateSession", b, ""), Event("Stop", b, "")>>,
          now |-> t + out.dur]
    ELSE IF out.at = "run"
    THEN [result |-> NoResult,
          err |-> out.text,
          tracker |-> onBackendError(tr, b, out.text, t + out.dur),
          events |-> <<Event("Start", b, BackendModel(model)),
                       Event("CreateSession", b, ""), Event("Run", b, ""),
                       Event("Destroy", b, ""), Event("Stop", b, "")>>,
          now |-> t + out.dur]
    ELSE LET success == out.at # "result" IN
         [result |-> [nil |-> FALSE, success |-> success, error |-> out.text],
          err |-> NilErr,
          tracker |-> IF success THEN Record(tr, b, UsageEstimate, t + out.dur) ELSE tr,
          events |-> <<Event("Start", b, BackendModel(model)),
                       Event("CreateSession", b, ""), Event("Run", b, "")>>
                     \o (IF success THEN <<Event("Record", b, "")>> ELSE <<>>)
                     \o <<Event("Destroy", b, ""), Event("Stop", b, "")>>,
          now |-> t + out.dur]

\* a runBackend that does not ask the tracker first
runBackendUnchecked(tr, b, model, out, t) == contactBackend(tr, b, model, out, t)

\* a runBackend that releases the session and the backend only on the path
\* that returns a successful result
runBackendReleasingOnSuccessOnly(tr, b, model, out, t) ==
    IF IsExhausted(tr, b, t)
    THEN [result |-> NoResult, err |-> <<"quota", "exhausted", "for", "backend", b>>,
          tracker |-> tr, events |-> <<>>, now |-> t]
    ELSE LET r == contactBackend(tr, b, model, out, t)
             kept(e) == out.at = "ok" \/ e.call \notin {"Destroy", "Stop"}
         IN  [r EXCEPT !.events = SelectSeq(@, kept)]

\* runBackend at time t: the result, the error, the tracker afterwards, the
\* calls made and the time of the return
runBackend(tr, b, model, out, t) ==
    IF IsExhausted(tr, b, t)
    THEN [result |-> NoResult, err |-> <<"quota", "exhausted", "for", "backend", b>>,
          tracker |-> tr, events |-> <<>>, now |-> t]
    ELSE contactBackend(tr, b, model, out, t)

\* a resolution that lets the task's model win over the run-time override
ResolveBackendTaskFirst(wsBackend, workBackend, taskModel) ==
    IF taskModel # EmptyHint /\ Len(taskModel) = 2
    THEN [backend |-> taskModel[1], model |-> taskModel[2]]
    ELSE IF workBackend # "" THEN [backend |-> workBackend, model |-> ""]
    ELSE [backend |-> wsBackend, model |-> ""]

\* the backend and model of the primary attempt
ResolveBackend(wsBackend, workBackend, taskModel) ==
    IF workBackend # "" THEN [backend |-> workBackend, model |-> ""]
    ELSE IF taskModel # EmptyHint /\ Len(taskModel) = 2
         THEN [backend |-> taskModel[1], model |-> taskModel[2]]
    ELSE [backend |-> wsBackend, model |-> ""]

\* RunE up to the call of runWithFailover: the checks, the task file, the
\* backend resolution, the claim and the tracker
WorkClaim(taskID, workBackend, file) ==
    /\ work.pc = "start"
    /\ IF taskID \notin DOMAIN tasks
       THEN /\ work' = [work EXCEPT !.pc = "done", !.id = taskID, !.ret = "NotFound"]
            /\ UNCHANGED <<tasks, tracker>>
       ELSE IF tasks[taskID].status # StatusPending
       THEN /\ work' = [work EXCEPT !.pc = "done", !.id = taskID, !.ret = "NotPending"]
            /\ UNCHANGED <<tasks, tracker>>
       ELSE IF taskID \notin GetReady(tasks)
       THEN /\ work' = [work EXCEPT !.pc = "done", !.id = taskID,
                                    !.ret = "IncompleteDependencies"]
            /\ UNCHANGED <<tasks, tracker>>
       ELSE LET merge == file.found /\ file.model # EmptyHint
                tModel == IF merge THEN file.model ELSE work.taskModel
                tFallback == IF merge THEN file.fallback ELSE work.taskFallback
                target == ResolveBackend(work.wsBackend, workBackend, tModel)
                claimed == SetStatusAndUpdate(tasks, taskID, StatusInProgress).reg
            IN /\ tasks' = claimed
               /\ tracker' = initQuotaTracker(tracker)
               /\ work' = [work EXCEPT !.pc = "primary", !.id = taskID,
                                       !.taskModel = tModel, !.taskFallback = tFallback,
                                       !.override = workBackend,
                                       !.backend = target.backend, !.model = target.model,
                                       !.saved = claimed[taskID].status]
    /\ UNCHANGED <<last, readyOut, orchVars, log, now, marked, sessions>>

\* runWithFailover: the primary attempt and the decision to fail over
WorkPrimary(out) ==
    /\ work.pc = "primary"
    /\ out.at = "mcp" => work.backend = "claude"
    /\ LET r == runBackend(tracker, work.backend, work.model, out, now)
           parts == work.taskFallback
           failover == /\ r.err # NilErr /\ isQuotaError(r.err)
                       /\ work.taskFallback # EmptyHint
                       /\ Len(parts) = 2
       IN /\ log' = log \o r.events
                        \o (IF failover THEN <<Event("RecordError", work.backend, "")>>
                            ELSE <<>>)
          /\ tracker' = IF failover
                        THEN RecordError(r.tracker, work.backend, Hour, r.now)
                        ELSE r.tracker
          /\ now' = r.now
          /\ work' = [work EXCEPT
                        !.pc = IF failover THEN "fallback" ELSE "finish",
                        !.attempts = Append(@, [backend |-> work.backend,
                                                model |-> work.model, err |-> r.err,
                                                result |-> r.result]),
                        !.backend = IF failover THEN parts[1] ELSE @,
                        !.model = IF failover THEN parts[2] ELSE @,
                        !.result = r.result, !.err = r.err]
    /\ UNCHANGED <<tasks, last, readyOut, orchVars, marked, sessions>>

\* a failover that tries the fallback again after a quota error from it
WorkFallbackRetrying(out) ==
    /\ work.pc = "fallback"
    /\ out.at = "mcp" => work.backend = "claude"
    /\ LET r == runBackend(tracker, work.backend, work.model, out, now) IN
       /\ log' = log \o r.events
       /\ tracker' = r.tracker
       /\ now' = r.now
       /\ work' = [work EXCEPT
                     !.pc = IF r.err # NilErr /\ isQuotaError(r.err)
                            THEN "fallback" ELSE "finish",
                     !.attempts = Append(@, [backend |-> work.backend,
                                             model |-> work.model, err |-> r.err,
                                             result |-> r.result]),
                     !.result = r.result, !.err = r.err]
    /\ UNCHANGED <<tasks, last, readyOut, orchVars, marked, sessions>>

\* runWithFailover: the attempt with the fallback backend
WorkFallback(out) ==
    /\ work.pc = "fallback"
    /\ out.at = "mcp" => work.backend = "claude"
    /\ LET r == runBackend(tracker, work.backend, work.model, out, now) IN
       /\ log' = log \o r.events
       /\ tracker' = r.tracker
       /\ now' = r.now
       /\ work' = [work EXCEPT
                     !.pc = "finish",
                     !.attempts = Append(@, [backend |-> work.backend,
                                             model |-> work.model, err |-> r.err,
                                             result |-> r.result]),
                     !.result = r.result, !.err = r.err]
    /\ UNCHANGED <<tasks, last, readyOut, orchVars, marked, sessions>>

\* RunE after runWithFailover returned
WorkFinish ==
    /\ work.pc = "finish"
    /\ IF work.err # NilErr
       THEN /\ work' = [work EXCEPT !.pc = "done", !.ret = "AgentFailed"]
            /\ UNCHANGED tasks
       ELSE IF work.result.success
       THEN /\ work' = [work EXCEPT !.pc = "done", !.ret = NoErr]
            /\ UNCHANGED tasks
       ELSE LET failed == SetStatusAndUpdate(tasks, work.id, StatusFailed).reg IN
            /\ tasks' = failed
            /\ work' = [work EXCEPT !.pc = "done", !.ret = NoErr,
                                    !.saved = failed[work.id].status]
    /\ UNCHANGED <<last, readyOut, orchVars, tracker, log, now, marked, sessions>>

\* the registries `flo work W` is started on: W depends on D
WorkRegistries ==
    { [id \in {"D", "W"} |->
         [id |-> id, title |-> "t",
          status |-> IF id = "D" THEN d ELSE w,
          deps |-> IF id = "D" THEN <<>> ELSE <<"D">>]] :
        d \in {StatusPending, StatusComplete}, w \in {StatusPending, StatusInProgress} }

InitWork ==
    /\ tasks \in WorkRegistries
    /\ last = Last("init", "", "", NoErr)
    /\ readyOut = {}
    /\ OrchIdle
    /\ tracker \in LoadedTrackers
    /\ log = <<>>
    /\ now = 0
    /\ marked = <<>>
    /\ sessions = {}
    /\ \E tm \in TaskModels, tf \in TaskFallbacks, wb \in {"claude", "gpt"} :
         work = [pc |-> "start", id |-> "", wsBackend |-> wb,
                 taskModel |-> tm, taskFallback |-> tf,
                 override |-> "", backend |-> "", model |-> "", attempts |-> <<>>,
                 result |-> NoResult, err |-> NilErr, ret |-> "",
                 saved |-> tasks["W"].status]

NextWork ==
    \/ \E taskID \in {"W", "X"}, workBackend \in {"", "copilot"}, file \in TaskFiles :
         WorkClaim(taskID, workBackend, file)
    \/ \E out \in Outcomes : WorkPrimary(out)
    \/ \E out \in Outcomes : WorkFallback(out)
    \/ WorkFinish

SpecWork == InitWork /\ [][NextWork]_vars

(***************************************************************************)
(* Several `flo work` processes on one workspace                           *)
(***************************************************************************)
\* the processes that run `flo work <task>`
Procs == {"p1", "p2", "p3"}

\* the tasks of the workspace
SessionIDs == {"A", "B", "C"}

\* ws.Root, the directory runBackend gives to CreateSession
WorkspaceRoot == "ws.Root"

\* backend.CreateSession(ctx, t, ws.Root) in the process p
CreateSession(p, id) == [proc |-> p, task |-> id, worktree |-> WorkspaceRoot]

SessionsUnchanged == UNCHANGED <<last, readyOut, orchVars, work, tracker, log, now, marked>>

\* `flo work id` in process p, up to the open session: the task is checked,
\* claimed and saved, and the session is created
FloWorkStart(p, id) ==
    /\ \A s \in sessions : s.proc # p
    /\ id \in GetReady(tasks)
    /\ tasks' = SetStatusAndUpdate(tasks, id, StatusInProgress).reg
    /\ sessions' = sessions \cup {CreateSession(p, id)}
    /\ SessionsUnchanged

\* the rest of `flo work` in process p: session.Run returns, the session is
\* destroyed, and a result with Success == false marks the task failed
FloWorkEnd(p, outcome) ==
    \E s \in sessions :
        /\ s.proc = p
        /\ sessions' = sessions \ {s}
        /\ tasks' = IF outcome = "failure"
                    THEN SetStatusAndUpdate(tasks, s.task, StatusFailed).reg
                    ELSE tasks
        /\ SessionsUnchanged

\* a failed task is made pending again (failed -> pending)
FloTaskRetry(id) ==
    /\ tasks[id].status = StatusFailed
    /\ tasks' = SetStatusAndUpdate(tasks, id, StatusPending).reg
    /\ UNCHANGED sessions
    /\ SessionsUnchanged

InitSessions ==
    /\ tasks = [id \in SessionIDs |-> New(id, "t", <<>>)]
    /\ last = Last("init", "", "", NoErr)
    /\ readyOut = {}
    /\ OrchIdle
    /\ WorkIdle

NextSessions ==
    \/ \E p \in Procs, id \in SessionIDs : FloWorkStart(p, id)
    \/ \E p \in Procs, outcome \in {"success", "failure", "error"} : FloWorkEnd(p, outcome)
    \/ \E id \in SessionIDs : FloTaskRetry(id)

SpecSessions == InitSessions /\ [][NextSessions]_vars

(***************************************************************************)
(* Processes that load, change and save the task file of one workspace     *)
(***************************************************************************)
\* In SpecShared tasks is the persisted task file, and a session is a
\* process with the registry it loaded (base) and its in-memory registry
\* (reg).
SharedProcs == {"p1", "p2"}

SharedUnchanged == UNCHANGED <<readyOut, orchVars, work, tracker, log, now, marked>>

\* loadWorkspace: the process reads the task file into its own Registry
PLoad(p) ==
    /\ \A s \in sessions : s.proc # p
    /\ sessions' = sessions \cup {[proc |-> p, base |-> tasks, reg |-> tasks]}
    /\ last' = Last("LoadWorkspace", p, "", NoErr)
    /\ UNCHANGED tasks
    /\ SharedUnchanged

\* t.SetStatus(to); ws.Tasks.Update(t) in the process's memory
PSetStatus(p, id, to) ==
    \E s \in sessions :
        LET r == SetStatusAndUpdate(s.reg, id, to) IN
        /\ s.proc = p
        /\ r.err = NoErr
        /\ sessions' = (sessions \ {s}) \cup {[s EXCEPT !.reg = r.reg]}
        /\ last' = Last("SetStatus", p, id, NoErr)
        /\ UNCHANGED tasks
        /\ SharedUnchanged

\* ws.Save(): the whole in-memory registry is written over the task file
PSave(p) ==
    \E s \in sessions :
        /\ s.proc = p
        /\ tasks' = s.reg
        /\ sessions' = (sessions \ {s}) \cup {[s EXCEPT !.base = s.reg]}
        /\ last' = Last("Save", p, "", NoErr)
        /\ SharedUnchanged

\* the process ends
PExit(p) ==
    \E s \in sessions :
        /\ s.proc = p
        /\ sessions' = sessions \ {s}
        /\ last' = Last("Exit", p, "", NoErr)
        /\ UNCHANGED tasks
        /\ SharedUnchanged

InitShared ==
    /\ tasks = [id \in LoadIDs |-> New(id, "t", <<>>)]
    /\ last = Last("init", "", "", NoErr)
    /\ readyOut = {}
    /\ OrchIdle
    /\ WorkIdle

NextShared ==
    \/ \E p \in SharedProcs : PLoad(p)
    \/ \E p \in SharedProcs, id \in LoadIDs, to \in {StatusInProgress, StatusFailed} :
          PSetStatus(p, id, to)
    \/ \E p \in SharedProcs : PSave(p)
    \/ \E p \in SharedProcs : PExit(p)

SpecShared == InitShared /\ [][NextShared]_vars

(***************************************************************************)
(* pkg/auth: roles, permissions and the DefaultAuthorizer                  *)
(***************************************************************************)
MaxPerms == 2

Resources == {"task", "workspace", "*"}
Actions == {"read", "write", "*"}

NewPermission(resource, action) == [resource |-> resource, action |-> action]

Permissions == {NewPermission(r, a) : r \in Resources, a \in Actions}

NewRole(name, permissions) == [name |-> name, permissions |-> permissions]

PermissionLists == UNION {[1..n -> Permissions] : n \in 0..MaxPerms}

\* an authorizer that knows no wildcard
AuthorizeExactOnly(role, resource, action) ==
    IF \E i \in DOMAIN role.permissions :
          /\ role.permissions[i].resource = resource
          /\ role.permissions[i].action = action
    THEN NoErr
    ELSE "unauthorized"

\* DefaultAuthorizer.Authorize: nil for the first permission that matches
\* exactly or by wildcard, else the error
Authorize(role, resource, action) ==
    IF \E i \in DOMAIN role.permissions :
          LET perm == role.permissions[i]
              resourceMatch == perm.resource = resource \/ perm.resource = "*"
              actionMatch == perm.action = action \/ perm.action = "*"
          IN  \/ (perm.resource = resource /\ perm.action = action)
              \/ (resourceMatch /\ actionMatch)
    THEN NoErr
    ELSE "unauthorized"

\* DefaultAuthorizer.HasPermission
HasPermission(role, permission) ==
    \E i \in DOMAIN role.permissions :
        LET perm == role.permissions[i]
            resourceMatch == perm.resource = permission.resource \/ perm.resource = "*"
            actionMatch == perm.action = permission.action \/ perm.action = "*"
        IN  \/ (perm.resource = permission.resource /\ perm.action = permission.action)
            \/ (resourceMatch /\ actionMatch)

\* In SpecAuth sessions holds the one role under test.
AuthNewRole(permissions) ==
    /\ sessions' = {NewRole("role", permissions)}
    /\ last' = Last("NewRole", "role", permissions, NoErr)
    /\ UNCHANGED <<tasks, readyOut, orchVars, work, tracker, log, now, marked>>

AuthAuthorize(resource, action) ==
    \E role \in sessions :
        /\ last' = Last("Authorize", role.name, NewPermission(resource, action),
                        Authorize(role, resource, action))
        /\ UNCHANGED <<tasks, readyOut, orchVars, workVars>>

AuthHasPermission(permission) ==
    \E role \in sessions :
        /\ last' = Last("HasPermission", role.name, permission,
                        IF HasPermission(role, permission) THEN "true" ELSE "false")
        /\ UNCHANGED <<tasks, readyOut, orchVars, workVars>>

InitAuth ==
    /\ tasks = <<>>
    /\ last = Last("init", "", "", NoErr)
    /\ readyOut = {}
    /\ OrchIdle
    /\ WorkIdle

NextAuth ==
    \/ \E permissions \in PermissionLists : AuthNewRole(permissions)
    \/ \E resource \in Resources, action \in Actions : AuthAuthorize(resource, action)
    \/ \E permission \in Permissions : AuthHasPermission(permission)

SpecAuth == InitAuth /\ [][NextAuth]_vars

(***************************************************************************)
(* Goroutines calling one Registry: the RWMutex and the steps under it     *)
(***************************************************************************)
\* In SpecConc running maps each goroutine to its call and its position in
\* it, and sem is the Registry's mu: the writer holding it and the readers.
ConcProcs == {"p1", "p2", "p3"}

Call(op, id, deps) == [op |-> op, id |-> id, deps |-> deps]

ConcCalls ==
    { Call("Add", "A", <<>>), Call("Add", "B", <<"A">>), Call("Add", "B", <<>>),
      Call("Add", "", <<>>), Call("Delete", "A", <<>>), Call("Delete", "B", <<>>),
      Call("GetReady", "", <<>>) }

\* a mutex that never makes a caller wait
CanLockUnguarded(mu) == TRUE

\* r.mu.Lock() returns when no writer and no reader holds mu
CanLock(mu) == mu.writer = "" /\ mu.readers = {}

\* r.mu.RLock() returns when no writer holds mu
CanRLock(mu) == mu.writer = ""

ConcUnchanged == UNCHANGED <<last, orch, waitBatch, workVars>>

\* Add: task.Validate() and r.mu.Lock(); Delete: r.mu.Lock(); GetReady:
\* r.mu.RLock()
ConcLock(p) ==
    LET c == running[p] IN
    /\ c.pc = "call"
    /\ IF c.op = "Add" /\ Validate(New(c.id, "t", c.deps)) # NoErr
       THEN /\ running' = [running EXCEPT ![p].pc = "done", ![p].err = "ValidationError"]
            /\ UNCHANGED sem
       ELSE IF c.op = "GetReady"
       THEN /\ CanRLock(sem)
            /\ sem' = [sem EXCEPT !.readers = @ \cup {p}]
            /\ running' = [running EXCEPT ![p].pc = "check"]
       ELSE /\ CanLock(sem)
            /\ sem' = [sem EXCEPT !.writer = p]
            /\ running' = [running EXCEPT ![p].pc = "check"]
    /\ UNCHANGED <<tasks, readyOut>>
    /\ ConcUnchanged

\* the checks made under the lock (Add: lines 32-38, Delete: 89-100), and
\* the whole of GetReady's loop
ConcCheck(p) ==
    LET c == running[p]
        err == IF c.op = "Add" THEN RegAdd(tasks, New(c.id, "t", c.deps)).err
               ELSE IF c.op = "Delete" THEN RegDelete(tasks, c.id).err
               ELSE NoErr
    IN
    /\ c.pc = "check"
    /\ running' = [running EXCEPT
                     ![p].pc = IF c.op = "GetReady" \/ err # NoErr THEN "unlock" ELSE "store",
                     ![p].err = err,
                     ![p].saw = tasks]
    /\ readyOut' = IF c.op = "GetReady" THEN GetReady(tasks) ELSE readyOut
    /\ UNCHANGED <<tasks, sem>>
    /\ ConcUnchanged

\* r.tasks[task.ID] = task (line 41) or delete(r.tasks, id) (line 102)
ConcStore(p) ==
    LET c == running[p] IN
    /\ c.pc = "store"
    /\ tasks' = IF c.op = "Add"
                THEN [x \in DOMAIN tasks \cup {c.id} |->
                        IF x = c.id THEN New(c.id, "t", c.deps) ELSE tasks[x]]
                ELSE [x \in DOMAIN tasks \ {c.id} |-> tasks[x]]
    /\ running' = [running EXCEPT ![p].pc = "unlock"]
    /\ UNCHANGED <<readyOut, sem>>
    /\ ConcUnchanged

\* the deferred r.mu.Unlock() or r.mu.RUnlock(), and the return
ConcUnlock(p) ==
    /\ running[p].pc = "unlock"
    /\ sem' = [writer |-> IF sem.writer = p THEN "" ELSE sem.writer,
               readers |-> sem.readers \ {p}]
    /\ running' = [running EXCEPT ![p].pc = "done"]
    /\ UNCHANGED <<tasks, readyOut>>
    /\ ConcUnchanged

InitConc ==
    /\ \E s \in {StatusPending, StatusComplete} :
          tasks = [id \in {"A"} |-> [New("A", "t", <<>>) EXCEPT !.status = s]]
    /\ last = Last("init", "", "", NoErr)
    /\ readyOut = {}
    /\ orch = [pc |-> "idle", readyTasks |-> {}]
    /\ waitBatch = FALSE
    /\ sem = [writer |-> "", readers |-> {}]
    /\ \E calls \in [ConcProcs -> ConcCalls] :
          running = [p \in ConcProcs |->
                       [op |-> calls[p].op, id |-> calls[p].id, deps |-> calls[p].deps,
                        pc |-> "call", err |-> NoErr, saw |-> <<>>]]
    /\ WorkIdle

NextConc ==
    \/ \E p \in ConcProcs : ConcLock(p)
    \/ \E p \in ConcProcs : ConcCheck(p)
    \/ \E p \in ConcProcs : ConcStore(p)
    \/ \E p \in ConcProcs : ConcUnlock(p)

SpecConc == InitConc /\ [][NextConc]_vars

(***************************************************************************)
(* Concurrent eas_task_claim calls on one Registry                         *)
(***************************************************************************)
\* In SpecClaim running maps each goroutine to the task it claims and its
\* position in handleTaskClaim; t is the stored *Task that Get returned.
\* taskReg.Get, the check of t.Status and the check of the deps
ClaimCheck(p) ==
    LET c == running[p]
        err == IF c.id \notin DOMAIN tasks THEN "NotFound"
               ELSE IF tasks[c.id].status # StatusPending THEN "NotPending"
               ELSE IF \E d \in GetDeps(tasks, c.id) : tasks[d].status # StatusComplete
                    THEN "DepsIncomplete"
               ELSE NoErr
    IN
    /\ c.pc = "call"
    /\ running' = [running EXCEPT ![p].pc = IF err = NoErr THEN "setStatus" ELSE "done",
                                  ![p].err = err]
    /\ UNCHANGED <<tasks, readyOut, sem>>
    /\ ConcUnchanged

\* t.SetStatus(in_progress): the transition is checked against t.Status as
\* read now
ClaimSetStatusCheck(p) ==
    LET c == running[p]
        err == SetStatus(tasks[c.id], StatusInProgress).err
    IN
    /\ c.pc = "setStatus"
    /\ running' = [running EXCEPT ![p].pc = IF err = NoErr THEN "write" ELSE "done",
                                  ![p].err = err]
    /\ UNCHANGED <<tasks, readyOut, sem>>
    /\ ConcUnchanged

\* t.SetStatus(in_progress): t.Status is written
ClaimSetStatusWrite(p) ==
    /\ running[p].pc = "write"
    /\ tasks' = [tasks EXCEPT ![running[p].id].status = StatusInProgress]
    /\ running' = [running EXCEPT ![p].pc = "update", ![p].wrote = TRUE]
    /\ UNCHANGED <<readyOut, sem>>
    /\ ConcUnchanged

\* taskReg.Update(t) and the return
ClaimUpdate(p) ==
    LET u == RegUpdate(tasks, tasks[running[p].id]) IN
    /\ running[p].pc = "update"
    /\ tasks' = u.reg
    /\ running' = [running EXCEPT ![p].pc = "done", ![p].err = u.err]
    /\ UNCHANGED <<readyOut, sem>>
    /\ ConcUnchanged

InitClaim ==
    /\ \E s \in {StatusPending, StatusComplete} :
          tasks = [id \in {"A", "B"} |->
                     IF id = "A" THEN [New("A", "t", <<>>) EXCEPT !.status = s]
                     ELSE New("B", "t", <<"A">>)]
    /\ last = Last("init", "", "", NoErr)
    /\ readyOut = {}
    /\ orch = [pc |-> "idle", readyTasks |-> {}]
    /\ waitBatch = FALSE
    /\ sem = [writer |-> "", readers |-> {}]
    /\ \E ids \in [ConcProcs -> {"A", "B"}] :
          running = [p \in ConcProcs |->
                       [id |-> ids[p], pc |-> "call", err |-> NoErr, wrote |-> FALSE]]
    /\ WorkIdle

NextClaim ==
    \/ \E p \in ConcProcs : ClaimCheck(p)
    \/ \E p \in ConcProcs : ClaimSetStatusCheck(p)
    \/ \E p \in ConcProcs : ClaimSetStatusWrite(p)
    \/ \E p \in ConcProcs : ClaimUpdate(p)

SpecClaim == InitClaim /\ [][NextClaim]_vars

(***************************************************************************)
(* A session's Run and the goroutine that ranges over its Events()         *)
(***************************************************************************)
\* In SpecStream work is the session: the position of Run, what it
\* returned, how often s.events was closed, how many events were sent, and
\* whether the consumer still ranges; log is the buffer of s.events.
MaxBuf == 2
MaxEvents == 4

EventTypes == {"message", "complete"}

StreamUnchanged == UNCHANGED <<tasks, last, readyOut, orchVars, tracker, now, marked, sessions>>

\* s.cmd.StdoutPipe() and s.cmd.Start(): an error of either is returned
StreamStart(outcome) ==
    /\ work.pc = "start"
    /\ work' = IF outcome = "ok"
               THEN [work EXCEPT !.pc = "scan"]
               ELSE [work EXCEPT !.pc = "returned", !.ret = outcome]
    /\ UNCHANGED log
    /\ StreamUnchanged

\* a line of output that carries an event: s.events <- Event{...}, which
\* waits while the buffer is full
StreamScan(type) ==
    /\ work.pc = "scan"
    /\ work.sent < MaxEvents
    /\ Len(log) < MaxBuf
    /\ log' = Append(log, type)
    /\ work' = [work EXCEPT !.sent = @ + 1]
    /\ StreamUnchanged

\* the output ends: close(s.events)
StreamClose ==
    /\ work.pc = "scan"
    /\ work' = [work EXCEPT !.pc = "wait", !.closes = @ + 1]
    /\ UNCHANGED log
    /\ StreamUnchanged

\* s.cmd.Wait() and the return of the Result
StreamWait(outcome) ==
    /\ work.pc = "wait"
    /\ work' = [work EXCEPT !.pc = "returned", !.ret = outcome]
    /\ UNCHANGED log
    /\ StreamUnchanged

\* for event := range session.Events(): takes an event, or ends when the
\* channel is closed and empty
StreamConsume ==
    /\ work.consumer = "ranging"
    /\ IF log # <<>>
       THEN /\ log' = Tail(log)
            /\ work' = [work EXCEPT !.seen = @ + 1]
       ELSE /\ work.closes > 0
            /\ log' = log
            /\ work' = [work EXCEPT !.consumer = "done"]
    /\ StreamUnchanged

InitStream ==
    /\ tasks = <<>>
    /\ last = Last("init", "", "", NoErr)
    /\ readyOut = {}
    /\ OrchIdle
    /\ work = [pc |-> "start", ret |-> "", closes |-> 0, sent |-> 0,
               consumer |-> "ranging", seen |-> 0]
    /\ tracker = <<>>
    /\ log = <<>>
    /\ now = 0
    /\ marked = <<>>
    /\ sessions = {}

NextStream ==
    \/ \E outcome \in {"ok", "pipe error", "start error"} : StreamStart(outcome)
    \/ \E type \in EventTypes : StreamScan(type)
    \/ StreamClose
    \/ \E outcome \in {"success", "failure"} : StreamWait(outcome)
    \/ StreamConsume

SpecStream == InitStream /\ [][NextStream]_vars

(***************************************************************************)
(* The tracker by itself: the calls callers make on a loaded tracker       *)
(***************************************************************************)
\* the backends the calls are made for: one with a limit, one without
QuotaBackends == {"claude", "gpt"}

\* what the clock and the calls' arguments say about backend b after a call
\* that marked it exhausted
Mark(until) == [set |-> TRUE, until |-> until]

QuotaUnchanged == UNCHANGED <<tasks, readyOut, orchVars, work, log, sessions>>

\* tracker.Record(b, UsageEstimate), as `flo work` calls it
QRecord(b) ==
    /\ tracker.tokens[b] < MaxRecords * UsageEstimate
    /\ tracker' = Record(tracker, b, UsageEstimate, now)
    /\ marked' = IF /\ b \in DOMAIN tracker.limits
                    /\ tracker.requests[b] < tracker.limits[b]
                    /\ tracker.requests[b] + 1 >= tracker.limits[b]
                 THEN [marked EXCEPT ![b] = Mark(now + WindowSize)]
                 ELSE marked
    /\ last' = Last("Record", b, "", NoErr)
    /\ UNCHANGED now
    /\ QuotaUnchanged

\* tracker.RecordError(b, d)
QRecordError(b, d) ==
    /\ tracker' = RecordError(tracker, b, d, now)
    /\ marked' = [marked EXCEPT ![b] = Mark(now + d)]
    /\ last' = Last("RecordError", b, "", NoErr)
    /\ UNCHANGED now
    /\ QuotaUnchanged

\* tracker.IsExhausted(b): the answer is kept in last.arg
QIsExhausted(b) ==
    /\ last' = Last("IsExhausted", b, IsExhausted(tracker, b, now), NoErr)
    /\ UNCHANGED <<tracker, marked, now>>
    /\ QuotaUnchanged

\* an hour passes
QTick ==
    /\ now < MaxTime
    /\ now' = now + 1
    /\ last' = Last("tick", "", "", NoErr)
    /\ UNCHANGED <<tracker, marked>>
    /\ QuotaUnchanged

InitQuota ==
    /\ tasks = <<>>
    /\ last = Last("init", "", "", NoErr)
    /\ readyOut = {}
    /\ OrchIdle
    /\ work = [pc |-> "none"]
    /\ log = <<>>
    /\ now = 0
    /\ sessions = {}
    /\ \E l \in LoadedTrackers :
          /\ l.requests["copilot"] = 0
          /\ "copilot" \notin l.isExhausted
          /\ tracker = initQuotaTracker(l)
          /\ marked = [b \in BackendNames |->
                         [set |-> b \in l.isExhausted, until |-> l.retryAfter[b]]]

NextQuota ==
    \/ \E b \in QuotaBackends : QRecord(b)
    \/ \E b \in QuotaBackends, d \in 1..MaxBlock : QRecordError(b, d)
    \/ \E b \in QuotaBackends : QIsExhausted(b)
    \/ QTick

SpecQuota == InitQuota /\ [][NextQuota]_vars

(***************************************************************************)
(* Properties                                                              *)
(***************************************************************************)
Range(f) == {f[i] : i \in DOMAIN f}

\* the ready set as the specification states it
ReadyByDefinition(reg) ==
    {id \in DOMAIN reg :
        /\ reg[id].status = "pending"
        /\ \A d \in Range(reg[id].deps) : d \in DOMAIN reg /\ reg[d].status = "complete"}

\* C1: GetReady returns exactly the stored tasks that are pending and whose
\* every deps entry resolves to a stored complete task; a pending task
\* without deps is included, a task with a dependency that is not complete
\* is not; with A (no deps) and B (deps = [A]) it is {A} while A is pending
\* and {B} once A is complete.
C1_GetReadyExact ==
    last.op = "GetReady" =>
        /\ readyOut = ReadyByDefinition(tasks)
        /\ \A id \in DOMAIN tasks :
             /\ (tasks[id].status = "pending" /\ tasks[id].deps = <<>>) => id \in readyOut
             /\ (\E d \in Range(tasks[id].deps) :
                    d \notin DOMAIN tasks \/ tasks[d].status # "complete") => id \notin readyOut
        /\ ( /\ DOMAIN tasks = {"A", "B"}
             /\ tasks["A"].deps = <<>>
             /\ tasks["B"].deps = <<"A">>
             /\ tasks["B"].status = "pending" )
           => /\ tasks["A"].status = "pending" => readyOut = {"A"}
              /\ tasks["A"].status = "complete" => readyOut = {"B"}

C1_Witness ==
    /\ last.op = "GetReady"
    /\ DOMAIN tasks = {"A", "B"}
    /\ tasks["A"].status = "complete"
    /\ tasks["B"].deps = <<"A">>
    /\ readyOut = {"B"}

\* C2 (as claimed): eas_task_claim moves a task to in_progress only when the
\* task is in GetReady() at that moment, and an attempt on a task that is not
\* in GetReady() returns an error and leaves the task's status unchanged.
C2_ClaimOnlyReady ==
    [][ (last'.op = "Claim" /\ last'.id \in DOMAIN tasks) =>
          LET id == last'.id IN
          /\ (tasks[id].status # "in_progress" /\ tasks'[id].status = "in_progress")
                => id \in GetReady(tasks)
          /\ id \notin GetReady(tasks)
                => (last'.err # NoErr /\ tasks'[id].status = tasks[id].status) ]_vars

\* the dependency graph of the stored tasks
Edges(reg) == {<<x, d>> : x \in DOMAIN reg, d \in IDs} \cap
              {e \in IDs \X IDs : e[1] \in DOMAIN reg /\ e[2] \in Range(reg[e[1]].deps)}

RECURSIVE ReachFrom(_, _)
ReachFrom(reg, S) ==
    LET N == S \cup {e[2] : e \in {f \in Edges(reg) : f[1] \in S}}
    IN IF N = S THEN S ELSE ReachFrom(reg, N)

\* the ids reachable from the entries of deps along stored deps edges
ReachableFromDeps(reg, deps) == ReachFrom(reg, Range(deps))

Acyclic(reg) == \A x \in DOMAIN reg : x \notin ReachableFromDeps(reg, reg[x].deps)

GraphIntegrity(reg) ==
    /\ Acyclic(reg)
    /\ \A x \in DOMAIN reg : x \notin Range(reg[x].deps)
    /\ \A x \in DOMAIN reg : Range(reg[x].deps) \subseteq DOMAIN reg

\* C3 (as claimed): after every Add, Update or Delete call, successful or
\* failed, the stored dependency graph is acyclic, no stored task lists its
\* own id and every deps entry refers to a stored task.
C3_GraphIntegrityAfterCalls ==
    last.op \in {"Add", "Update", "Delete"} => GraphIntegrity(tasks)

\* a diamond: D depends on B and C, which both depend on A
DiamondRegistry ==
    [x \in {"A", "B", "C", "D"} |->
        New(x, "t", IF x = "A" THEN <<>> ELSE IF x = "D" THEN <<"B", "C">> ELSE <<"A">>)]

\* C4: Update(task) on a stored id whose deps all resolve fails with
\* CircularDependency exactly when task.id is reachable from task.deps along
\* the stored deps edges (a self-dependency included); the update closing
\* A->B->C->A is rejected and a diamond is accepted.
C4_UpdateCycleIff ==
    /\ \A t \in FreshTasks(IDs) \cup Range(tasks) :
         (Validate(t) = NoErr /\ t.id \in DOMAIN tasks /\ validateDepsLocked(tasks, t) = NoErr)
           => /\ RegUpdate(tasks, t).err \in {NoErr, "CircularDependency"}
              /\ RegUpdate(tasks, t).err = "CircularDependency"
                    <=> t.id \in ReachableFromDeps(tasks, t.deps)
    /\ ( /\ "A" \in DOMAIN tasks /\ "B" \in DOMAIN tasks /\ "C" \in DOMAIN tasks
         /\ "A" \in Range(tasks["B"].deps)
         /\ "B" \in Range(tasks["C"].deps) )
       => RegUpdate(tasks, New("A", "t", <<"C">>)).err = "CircularDependency"
    /\ RegUpdate(DiamondRegistry, DiamondRegistry["D"]).err = NoErr
    /\ (last.op = "Update" /\ last.err = NoErr) => last.id \notin
           ReachableFromDeps(tasks, tasks[last.id].deps)

C4_Witness ==
    /\ last = Last("Update", "A", "", "CircularDependency")
    /\ DOMAIN tasks = IDs
    /\ tasks["A"].deps = <<>>
    /\ tasks["B"].deps = <<"A">>
    /\ tasks["C"].deps = <<"B">>

\* the transitions the claim lists
ClaimedTransitions ==
    { <<"pending", "in_progress">>, <<"in_progress", "complete">>,
      <<"in_progress", "failed">>, <<"failed", "pending">> }

\* C5: SetStatus succeeds exactly for pending->in_progress,
\* in_progress->complete, in_progress->failed and failed->pending; every
\* other pair, self-transitions included, fails with InvalidTransition and
\* leaves the status unchanged.
C5_SetStatusTransitions ==
    /\ [](\A c \in TestStatusTransitions :
            (SetStatus([New("test-001", "Test Task", <<>>) EXCEPT !.status = c.from],
                       c.to).err # NoErr) = c.wantErr)
    /\ [][ last'.op = "SetStatus" =>
          LET id == last'.id
              from == tasks[id].status
              to == last'.arg
          IN /\ last'.err = NoErr <=> <<from, to>> \in ClaimedTransitions
             /\ last'.err = NoErr => tasks'[id].status = to
             /\ last'.err # NoErr =>
                  (last'.err = "InvalidTransition" /\ tasks'[id].status = from) ]_vars

C5_Witness ==
    /\ last.op = "SetStatus"
    /\ last.arg = "complete"
    /\ last.err = "InvalidTransition"
    /\ tasks[last.id].status = "pending"

\* C6 (as claimed): the status stored for a task id changes only along the
\* four transitions; once it is complete it never changes.
C6_StoredStatusFollowsMachine ==
    [][ \A id \in DOMAIN tasks \cap DOMAIN tasks' :
          \/ tasks'[id].status = tasks[id].status
          \/ <<tasks[id].status, tasks'[id].status>> \in ClaimedTransitions ]_vars

\* C7: with maxAgents = MaxAgents, at most MaxAgents goroutines are in flight
\* at any instant in every interleaving of the loop and its workers (with
\* the five tasks ready and MaxAgents = 2, never 3): the sem channel counts
\* them, and a further ready task is handed out only from a state in which
\* a slot is free.
C7_AtMostMaxAgentsInFlight ==
    /\ [](InFlight <= MaxAgents /\ sem = InFlight)
    /\ [][ InFlight' > InFlight =>
             (InFlight < MaxAgents /\ InFlight' = InFlight + 1) ]_vars

C7_Witness ==
    /\ orch.pc = "range"
    /\ InFlight = MaxAgents
    /\ orch.readyTasks # {}
    /\ Cardinality(orch.readyTasks) + InFlight = Cardinality(OrchIDs)
    /\ \A id \in OrchIDs : tasks[id].status = "pending"

\* C8 (as claimed): a task handed to a worker has been moved to in_progress
\* in the Registry, no earlier dispatch of it is still in flight, and no two
\* workers execute the same task at the same time.
C8_ClaimedBeforeWorkStarts ==
    /\ [](\A id \in DOMAIN running : running[id] <= 1)
    /\ [][ \A id \in DOMAIN running \cap DOMAIN running' :
             running'[id] > running[id] =>
                (running[id] = 0 /\ tasks'[id].status = "in_progress") ]_vars

\* the error text carries a quota or rate-limit signal
CarriesQuotaSignal(err) ==
    \E i \in DOMAIN err :
        \/ err[i] \in {"429", "quota", "Quota"}
        \/ /\ i + 1 \in DOMAIN err
           /\ err[i] \in {"rate", "Rate"}
           /\ err[i + 1] \in {"limit", "Limit"}
        \/ /\ i + 2 \in DOMAIN err
           /\ err[i] \in {"too", "Too"}
           /\ err[i + 1] \in {"many", "Many"}
           /\ err[i + 2] \in {"requests", "Requests"}

RecordEventsFor(b) == {i \in DOMAIN log : log[i].call = "Record" /\ log[i].backend = b}

\* C9: when the primary attempt returns an error that carries a quota or
\* rate-limit signal and the task's fallback is "backendY/modelZ", the run
\* goes on, by itself, to an attempt with backendY and modelZ; when that
\* attempt succeeds, the usage is recorded for backendY (one more request,
\* the token estimate added) and nothing is recorded for the primary backend.
C9_FailoverToFallback ==
    /\ [][ (work.pc = "primary" /\ work'.pc # "primary") =>
             ( (CarriesQuotaSignal(work'.attempts[1].err) /\ Len(work.taskFallback) = 2)
                 => /\ work'.pc = "fallback"
                    /\ work'.backend = work.taskFallback[1]
                    /\ work'.model = work.taskFallback[2] ) ]_vars
    /\ [][ (work.pc = "fallback" /\ work'.pc # "fallback") =>
             LET y == work.taskFallback[1]
                 p == work.attempts[1].backend
                 a == work'.attempts[2]
             IN /\ a.backend = y
                /\ a.model = work.taskFallback[2]
                /\ (a.err = NilErr /\ a.result.success) =>
                     /\ p # y
                     /\ tracker'.requests[y] = tracker.requests[y] + 1
                     /\ tracker'.tokens[y] = tracker.tokens[y] + 10000
                     /\ tracker'.requests[p] = tracker.requests[p]
                     /\ tracker'.tokens[p] = tracker.tokens[p]
                     /\ log'[Len(log') - 2] = Event("Record", y, "") ]_vars
    /\ []( ( /\ work.pc \in {"finish", "done"}
              /\ Len(work.attempts) = 2
              /\ work.attempts[2].result.success )
            => /\ RecordEventsFor(work.attempts[2].backend) # {}
               /\ RecordEventsFor(work.attempts[1].backend) = {} )

C9_Witness ==
    /\ work.pc = "done"
    /\ Len(work.attempts) = 2
    /\ work.attempts[1].backend = "claude"
    /\ work.attempts[1].err = <<"Rate", "Limit", "exceeded">>
    /\ work.attempts[2].backend = "copilot"
    /\ work.attempts[2].model = "gpt-4"
    /\ work.attempts[2].result.success
    /\ tracker.requests["copilot"] = 1
    /\ tracker.requests["claude"] = 0

\* C10 (as claimed): when the run ends after a primary attempt that failed
\* with a quota or rate-limit signal, with no fallback declared or with a
\* fallback attempt that failed the same way, the task is failed in the
\* registry and in the saved workspace and the command returned an error.
C10_QuotaFailureMarksFailed ==
    ( /\ work.pc = "done"
      /\ Len(work.attempts) >= 1
      /\ CarriesQuotaSignal(work.attempts[1].err)
      /\ \/ work.taskFallback = EmptyHint
         \/ Len(work.attempts) = 2 /\ CarriesQuotaSignal(work.attempts[2].err) )
    => /\ tasks[work.id].status = "failed"
       /\ work.saved = "failed"
       /\ work.ret \notin {NoErr, ""}

\* the last backend attempt of the run
LastAttempt == work.attempts[Len(work.attempts)]

\* C11 (as claimed): when the run has ended and the backend call that
\* serviced the task returned a result with Success == true, the task is
\* complete in the registry and in the saved workspace.
C11_SuccessCompletesTask ==
    ( /\ work.pc = "done"
      /\ Len(work.attempts) >= 1
      /\ LastAttempt.err = NilErr
      /\ LastAttempt.result.success )
    => /\ tasks[work.id].status = "complete"
       /\ work.saved = "complete"

\* the attempt failed and its failure carries no quota or rate-limit signal:
\* an error without the signal, or a result with Success == false
PlainFailure(a) ==
    \/ a.err # NilErr /\ ~CarriesQuotaSignal(a.err)
    \/ a.err = NilErr /\ ~a.result.success

\* C12 (as claimed): when the primary attempt failed for a reason that is
\* not a quota or rate-limit signal, no attempt is made with the fallback
\* and the task is failed when the run has ended.
C12_PlainFailureMarksFailed ==
    ( /\ work.pc = "done"
      /\ Len(work.attempts) >= 1
      /\ PlainFailure(work.attempts[1]) )
    => /\ Len(work.attempts) = 1
       /\ tasks[work.id].status = "failed"
       /\ work.saved = "failed"

\* the calls that contact a backend
ContactCalls == {"Start", "CreateSession", "Run"}

\* C13: an attempt made while the tracker holds the attempt's backend
\* exhausted issues no Start, CreateSession or Run: it returns the error
\* "quota exhausted for backend ...", and the primary attempt of a task
\* with a fallback "backend/model" goes on to the fallback attempt.
C13_ExhaustedBackendNotContacted ==
    [][ ( /\ work.pc \in {"primary", "fallback"}
          /\ work'.pc # work.pc
          /\ IsExhausted(tracker, work.backend, now) )
        => /\ \A i \in (Len(log) + 1)..Len(log') : log'[i].call \notin ContactCalls
           /\ work'.err = <<"quota", "exhausted", "for", "backend", work.backend>>
           /\ now' = now
           /\ (work.pc = "primary" /\ Len(work.taskFallback) = 2)
                 => /\ work'.pc = "fallback"
                    /\ work'.backend = work.taskFallback[1] ]_vars

C13_Witness ==
    /\ work.pc = "fallback"
    /\ work.attempts[1].backend = "claude"
    /\ work.attempts[1].err = <<"quota", "exhausted", "for", "backend", "claude">>
    /\ work.backend = "copilot"
    /\ log = <<Event("RecordError", "claude", "")>>

\* the attempt just made contacted its backend
Contacted == \E i \in (Len(log) + 1)..Len(log') : log'[i].call \in ContactCalls

FailureText(a) == IF a.err # NilErr THEN a.err ELSE a.result.error

Failed(a) == a.err # NilErr \/ ~a.result.success

\* C15 (as claimed): a failed primary attempt of a task with a fallback
\* "backend/model" takes the failover path exactly when the text of the
\* failure, a returned error or the Error of a result with Success == false,
\* carries a quota or rate-limit signal.
C15_SignalIffQuotaText ==
    [][ ( /\ work.pc = "primary"
          /\ work'.pc # "primary"
          /\ Len(work.taskFallback) = 2
          /\ Failed(work'.attempts[1]) )
        => ( work'.pc = "fallback"
               <=> CarriesQuotaSignal(FailureText(work'.attempts[1])) ) ]_vars

\* C16: IsExhausted(b) answers true exactly when b was marked exhausted
\* before (by RecordError, or by a Record that crossed its limit, in this
\* run or in the loaded usage) and the retry_after of that mark has not
\* passed; it answers false for a backend that was never marked and has no
\* recorded request, and false once the clock has reached retry_after
\* although the flag is still set.
C16_IsExhaustedIffMarkedAndNotElapsed ==
    \A b \in QuotaBackends :
        /\ IsExhausted(tracker, b, now) <=> (marked[b].set /\ now < marked[b].until)
        /\ (last.op = "IsExhausted" /\ last.id = b) =>
              (last.arg <=> (marked[b].set /\ now < marked[b].until))
        /\ (~marked[b].set /\ tracker.requests[b] = 0) => ~IsExhausted(tracker, b, now)
        /\ (b \in tracker.isExhausted /\ now >= marked[b].until) =>
              ~IsExhausted(tracker, b, now)

\* claude crossed its limit with a Record, the window has passed, nothing
\* cleared the flag, and IsExhausted answered false
C16_Witness ==
    /\ last.op = "IsExhausted"
    /\ last.id = "claude"
    /\ last.arg = FALSE
    /\ tracker.requests["claude"] = ClaudeLimit
    /\ "claude" \in tracker.isExhausted
    /\ marked["claude"].set
    /\ now = marked["claude"].until
    /\ now > 0

\* the Record step of b is the one that takes its counter over its limit
Crosses(b) ==
    /\ b \in DOMAIN tracker.limits
    /\ tracker.requests[b] < tracker.limits[b]
    /\ tracker'.requests[b] >= tracker.limits[b]

\* C17: Record(b, tokens) adds one to b's requests and tokens to its
\* tokens; it marks b exhausted, with retry_after one window after now, when
\* a limit is configured for b and this increment crosses it, and otherwise
\* leaves the exhaustion of every backend as it was; so a backend without a
\* limit is never exhausted by counting.  The limits are the ones
\* initQuotaTracker sets.
C17_RecordCountsAndLimit ==
    [][\A b \in QuotaBackends :
          (last'.op = "Record" /\ last'.id = b) =>
             /\ tracker.limits = ("claude" :> ClaudeLimit) @@ ("copilot" :> CopilotLimit)
             /\ tracker'.requests = [tracker.requests EXCEPT ![b] = @ + 1]
             /\ tracker'.tokens = [tracker.tokens EXCEPT ![b] = @ + UsageEstimate]
             /\ Crosses(b) =>
                   /\ tracker'.isExhausted = tracker.isExhausted \cup {b}
                   /\ tracker'.retryAfter =
                         [tracker.retryAfter EXCEPT ![b] = now + WindowSize]
                   /\ IsExhausted(tracker', b, now')
             /\ ~Crosses(b) =>
                   /\ tracker'.isExhausted = tracker.isExhausted
                   /\ tracker'.retryAfter = tracker.retryAfter
             /\ b \notin DOMAIN tracker.limits =>
                   (IsExhausted(tracker', b, now') <=> IsExhausted(tracker, b, now))]_vars

\* a Record took claude to its limit and marked it, and gpt, which has no
\* limit, has requests recorded and is not marked
C17_Witness ==
    /\ last.op = "Record"
    /\ last.id = "claude"
    /\ tracker.requests["claude"] = ClaudeLimit
    /\ "claude" \in tracker.isExhausted
    /\ tracker.retryAfter["claude"] = now + WindowSize
    /\ tracker.requests["gpt"] >= 1
    /\ "gpt" \notin tracker.isExhausted

RegistryCalls == {"Add", "Update", "Delete"}

\* C18: a call of Add, Update or Delete that returns an error leaves the
\* registry's tasks, and every field of them, as they were when it was made.
C18_FailedCallLeavesRegistry ==
    [][(last'.op \in RegistryCalls /\ last'.err # NoErr) => tasks' = tasks]_vars

\* with A, B and C stored, an Update was refused for a cycle
C18_Witness ==
    /\ last.op = "Update"
    /\ last.err = "CircularDependency"
    /\ DOMAIN tasks = IDs
    /\ \E id \in IDs : tasks[id].deps # <<>>

\* C19 (as claimed): the fields of a stored task change only in an Update of
\* that task that returns no error; writing to a Task the caller holds
\* changes nothing the registry observes.
C19_FieldsChangeOnlyByAcceptedCall ==
    [][\A id \in DOMAIN tasks \cap DOMAIN tasks' :
          tasks'[id] # tasks[id] =>
             (last'.op = "Update" /\ last'.id = id /\ last'.err = NoErr)]_vars

\* the stored tasks other than id that list id in their Deps
OtherDependents(id) ==
    {x \in DOMAIN tasks \ {id} : id \in Range(tasks[x].deps)}

\* C20 (as claimed): Delete(id) returns NotFound exactly when id is not
\* stored, HasDependents exactly when some other stored task lists id in its
\* Deps, which is exactly when GetDependents(id) is not empty, and otherwise
\* removes the task and nothing else.
C20_DeleteIffNoOtherDependents ==
    [][\A id \in IDs :
          (last'.op = "Delete" /\ last'.id = id) =>
             /\ last'.err = "NotFound" <=> id \notin DOMAIN tasks
             /\ last'.err = "HasDependents" <=>
                   (id \in DOMAIN tasks /\ OtherDependents(id) # {})
             /\ id \in DOMAIN tasks =>
                   (OtherDependents(id) # {} <=> GetDependents(tasks, id).tasks # {})
             /\ last'.err = NoErr =>
                   tasks' = [x \in DOMAIN tasks \ {id} |-> tasks[x]]
             /\ last'.err # NoErr => tasks' = tasks]_vars

\* the tasks a caller may hand to Add: those of task.New with any Deps, and
\* Task values built by hand with any status, valid or not
AddInputs ==
    FreshTasks(IDs)
      \cup {[New(id, "t", deps) EXCEPT !.status = s] :
               id \in StatusIDs, deps \in DepListsOver(StatusIDs),
               s \in Statuses \cup {""}}

Invalid(t) == t.id = "" \/ t.title = "" \/ t.status \notin Statuses

Unresolved(reg, t) == \E d \in Range(t.deps) : d \notin DOMAIN reg

C22_AddRejectsCycle ==
    \A t \in FreshTasks(IDs) :
        ( /\ Validate(t) = NoErr
          /\ t.id \notin DOMAIN tasks
          /\ t.id \in ReachableFromDeps(tasks, t.deps) )
            => RegAdd(tasks, t).err = "CircularDependency"

\* C23 (as claimed): after a Load that returns no error every deps entry of
\* an installed task names an installed task, whatever the file order, and
\* the installed dependency graph is acyclic; a Load of a file with an
\* invalid task or an unresolved dependency returns an error.
C23_LoadedSetSatisfiesInvariant ==
    last.op = "Load" =>
        /\ last.err = NoErr =>
              /\ \A x \in DOMAIN tasks : Range(tasks[x].deps) \subseteq DOMAIN tasks
              /\ Acyclic(tasks)
        /\ (\E i \in DOMAIN last.arg.tasks : Validate(last.arg.tasks[i]) # NoErr)
              => last.err # NoErr
        /\ (\E i \in DOMAIN last.arg.tasks :
               \E d \in Range(last.arg.tasks[i].deps) :
                  \A j \in DOMAIN last.arg.tasks : last.arg.tasks[j].id # d)
              => last.err # NoErr

\* C24 (as claimed): a Load that returns an error, whatever the reason,
\* leaves the registry's tasks as they were before the call; no query after
\* it sees a part of the file installed.
C24_FailedLoadLeavesRegistry ==
    [][(last'.op = "Load" /\ last'.err # NoErr) => tasks' = tasks]_vars

\* C25 (as claimed): Save followed by Load into a fresh registry returns no
\* error and gives a registry with the same tasks, field by field, and the
\* same GetReady set as the saved one.
C25_SaveLoadRoundTrip ==
    [][last'.op = "SaveLoad" =>
          /\ last'.err = NoErr
          /\ tasks' = tasks
          /\ GetReady(tasks') = GetReady(tasks)]_vars

C27_CancelStopsDispatch ==
    [][orch.ctx = "cancelled" =>
          /\ \A id \in OrchIDs : running'[id] <= running[id]
          /\ \A id \in OrchIDs :
                (running[id] > 0 /\ tasks[id].status # StatusComplete)
                    => tasks'[id].status # StatusComplete]_vars

\* C28 (as claimed): when every backend run returns, the run reaches the
\* cycle whose GetReady is empty and ends there, and by then every task it
\* dispatched is complete or failed.
C28_RunTerminates ==
    <>[](/\ orch.pc = "done"
         /\ \A id \in OrchIDs : tasks[id].status \in {StatusComplete, StatusFailed})

\* task a is to be dispatched before task b: higher priority, or the same
\* priority and added earlier
Before(a, b) ==
    \/ OrchPriority[a] > OrchPriority[b]
    \/ /\ OrchPriority[a] = OrchPriority[b]
       /\ \E i, j \in DOMAIN OrchInsertionOrder :
             /\ OrchInsertionOrder[i] = a
             /\ OrchInsertionOrder[j] = b
             /\ i < j

\* C29 (as claimed): the task a cycle dispatches next is, among the ready
\* tasks of the cycle not yet dispatched, the one of highest priority, and
\* among those of that priority the one added first.
C29_DispatchByPriority ==
    [][\A id \in OrchIDs :
          running'[id] > running[id] =>
             \A other \in orch.readyTasks \ {id} : Before(id, other)]_vars

\* C30 (as claimed): no two sessions that are open at the same time were
\* given the same working directory.
C30_NoSharedWorkingDirectory ==
    \A s1, s2 \in sessions : s1 # s2 => s1.worktree # s2.worktree

C32_NoLostUpdate ==
    [][\A p \in SharedProcs :
          (last'.op = "Save" /\ last'.id = p) =>
             \A s \in sessions :
                s.proc = p =>
                   \A id \in DOMAIN tasks :
                      s.reg[id] = s.base[id] => tasks'[id] = tasks[id]]_vars

\* the role holds a permission for the resource or "*" and the action or "*"
Holds(role, resource, action) ==
    \E perm \in Range(role.permissions) :
        /\ perm.resource \in {resource, "*"}
        /\ perm.action \in {action, "*"}

\* C33: Authorize succeeds iff the role holds a permission whose resource is
\* the requested one or "*" and whose action is the requested one or "*"; a
\* role without permissions is denied everything; HasPermission answers as
\* Authorize does for the same role, resource and action.
C33_AuthorizeIffHolds ==
    \A role \in sessions :
        /\ last.op = "Authorize" =>
              /\ last.err = NoErr <=> Holds(role, last.arg.resource, last.arg.action)
              /\ role.permissions = <<>> => last.err # NoErr
              /\ HasPermission(role, last.arg) <=> last.err = NoErr
        /\ last.op = "HasPermission" =>
              /\ last.err = "true" <=> Holds(role, last.arg.resource, last.arg.action)
              /\ role.permissions = <<>> => last.err = "false"
              /\ last.err = "true"
                    <=> Authorize(role, last.arg.resource, last.arg.action) = NoErr

C33_Witness ==
    /\ last = Last("Authorize", "role", NewPermission("task", "read"), NoErr)
    /\ sessions = {NewRole("role", <<NewPermission("workspace", "write"),
                                     NewPermission("*", "read")>>)}

\* C34: a run of a task makes at most two backend attempts; the second is
\* made only after a quota error of the first with a fallback declared, and
\* goes to the fallback; after the second attempt, whatever its error, the
\* run makes no further attempt.
C34_AtMostTwoAttempts ==
    /\ work.pc # "none" => Len(work.attempts) <= 2
    /\ (work.pc # "none" /\ Len(work.attempts) = 2) =>
          /\ work.attempts[1].err # NilErr
          /\ isQuotaError(work.attempts[1].err)
          /\ work.taskFallback # EmptyHint
          /\ work.attempts[2].backend = work.taskFallback[1]
          /\ work.attempts[2].model = work.taskFallback[2]
          /\ work.pc \in {"finish", "done"}
    /\ work.pc = "fallback" => Len(work.attempts) = 1

C34_Witness ==
    /\ work.pc = "done"
    /\ Len(work.attempts) = 2
    /\ work.attempts[1].backend = "claude"
    /\ work.attempts[2].backend = "copilot"
    /\ work.attempts[2].err # NilErr
    /\ isQuotaError(work.attempts[2].err)

\* the backend and model the primary attempt is made with
PrimaryTarget ==
    IF work.pc = "primary"
    THEN [backend |-> work.backend, model |-> work.model]
    ELSE [backend |-> work.attempts[1].backend, model |-> work.attempts[1].model]

\* the task's model field has the form backend/model
IsBackendSlashModel(hint) == hint # EmptyHint /\ Len(hint) = 2

\* C35: the primary attempt uses the run-time override when one is given
\* (and then nothing of the task's model), else the backend and model parsed
\* from the task's model field, else the workspace's default backend; the
\* default is used only when there is neither an override nor a model field
\* of the form backend/model.
C35_BackendPrecedence ==
    (work.pc \in {"primary", "fallback", "finish"}
       \/ (work.pc = "done" /\ Len(work.attempts) >= 1)) =>
       /\ work.override # "" =>
             PrimaryTarget = [backend |-> work.override, model |-> ""]
       /\ (work.override = "" /\ IsBackendSlashModel(work.taskModel)) =>
             PrimaryTarget = [backend |-> work.taskModel[1], model |-> work.taskModel[2]]
       /\ (work.override = "" /\ ~IsBackendSlashModel(work.taskModel)) =>
             PrimaryTarget = [backend |-> work.wsBackend, model |-> ""]

C35_Witness ==
    /\ work.pc = "finish"
    /\ work.override = "copilot"
    /\ work.taskModel = <<"claude", "sonnet">>
    /\ work.wsBackend = "gpt"
    /\ work.attempts[1].backend = "copilot"
    /\ work.attempts[1].model = ""

\* every dependency of every task of reg is a task of reg
NoMissingDeps(reg) ==
    \A id \in DOMAIN reg : \A i \in DOMAIN reg[id].deps : reg[id].deps[i] \in DOMAIN reg

ConcDone(p, op, id) ==
    running[p].pc = "done" /\ running[p].op = op /\ running[p].id = id

\* C36: registry calls made by concurrent goroutines take effect one at a
\* time: a Delete(A) and an Add of B with deps [A] never both succeed when
\* nothing adds A again, and B is never stored while A is missing; of two
\* Adds of the same new id with resolved deps exactly one succeeds; and what
\* a GetReady sees under its lock has no stored task with a missing
\* dependency.
C36_RegistryCallsAreAtomic ==
    /\ NoMissingDeps(tasks)
    /\ \A p, q, r \in ConcProcs :
          (/\ {p, q, r} = ConcProcs
           /\ ConcDone(p, "Delete", "A")
           /\ ConcDone(q, "Add", "B") /\ running[q].deps = <<"A">>
           /\ running[r].op = "GetReady") =>
              ~(running[p].err = NoErr /\ running[q].err = NoErr)
    /\ \A p, q, r \in ConcProcs :
          (/\ {p, q, r} = ConcProcs /\ p # q
           /\ ConcDone(p, "Add", "B") /\ ConcDone(q, "Add", "B")
           /\ running[r].op = "GetReady") =>
              \/ (running[p].err = NoErr /\ running[q].err = "DuplicateID")
              \/ (running[q].err = NoErr /\ running[p].err = "DuplicateID")
    /\ \A p \in ConcProcs :
          (running[p].op = "GetReady" /\ running[p].pc \in {"unlock", "done"}) =>
              NoMissingDeps(running[p].saw)

C36_Witness ==
    /\ ConcDone("p1", "Delete", "A") /\ running["p1"].err = "HasDependents"
    /\ ConcDone("p2", "Add", "B") /\ running["p2"].deps = <<"A">>
    /\ running["p2"].err = NoErr
    /\ ConcDone("p3", "GetReady", "")
    /\ DOMAIN running["p3"].saw = {"A", "B"}

\* the call at position i of the log was made and returned without error:
\* the code went on to the call that follows it only then
StartedAt(i) ==
    log[i].call = "Start" /\ i < Len(log) /\ log[i + 1].call = "CreateSession"

CreatedAt(i) ==
    log[i].call = "CreateSession" /\ i < Len(log) /\ log[i + 1].call = "Run"

\* position j is the first call of the given name after position i
FirstAfter(i, j, call) ==
    /\ j > i /\ j <= Len(log)
    /\ log[j].call = call /\ log[j].backend = log[i].backend
    /\ \A k \in (i + 1)..(j - 1) : log[k].call \notin {call, "Start"}

\* C37: when an attempt has returned, on every path, each backend that was
\* started has been stopped and each session that was created has been
\* destroyed, the session before the backend; nothing is stopped or
\* destroyed that was not started or created.
C37_AcquiredIsReleased ==
    work.pc \in {"fallback", "finish", "done"} =>
       /\ \A i \in DOMAIN log : StartedAt(i) => \E j \in DOMAIN log : FirstAfter(i, j, "Stop")
       /\ \A i \in DOMAIN log :
             CreatedAt(i) =>
                \E j, k \in DOMAIN log :
                   FirstAfter(i, j, "Destroy") /\ FirstAfter(i, k, "Stop") /\ j < k
       /\ Cardinality({j \in DOMAIN log : log[j].call = "Stop"})
             = Cardinality({i \in DOMAIN log : StartedAt(i)})
       /\ Cardinality({j \in DOMAIN log : log[j].call = "Destroy"})
             = Cardinality({i \in DOMAIN log : CreatedAt(i)})

C37_Witness ==
    /\ work.pc = "done"
    /\ Len(work.attempts) = 2
    /\ log = <<Event("Start", "claude", "sonnet"), Event("CreateSession", "claude", ""),
               Event("Run", "claude", ""), Event("Destroy", "claude", ""),
               Event("Stop", "claude", ""), Event("RecordError", "claude", ""),
               Event("Start", "copilot", "gpt-4"), Event("CreateSession", "copilot", ""),
               Event("Stop", "copilot", "")>>

\* C38 (as claimed): an attempt that is skipped because the tracker holds
\* its backend exhausted leaves that backend's retry_after where it was.
C38_SkipKeepsRetryAfter ==
    [][ ( /\ work.pc \in {"primary", "fallback"}
          /\ work'.pc # work.pc
          /\ IsExhausted(tracker, work.backend, now) )
        => tracker'.retryAfter[work.backend] = tracker.retryAfter[work.backend] ]_vars

\* C39 (as claimed): when Run has returned, with a Result or with an error,
\* the session's event channel has been closed exactly once (so that the
\* goroutine ranging over Events() ends).
C39_StreamClosedOnReturn ==
    (work.pc = "returned") => (work.closes = 1)

\* C40 (as claimed): of the eas_task_claim invocations made concurrently
\* for one pending, ready task at most one reports success, and only one
\* sets the task to in_progress.
C40_AtMostOneClaimSucceeds ==
    \A p, q \in ConcProcs :
        (/\ p # q
         /\ running[p].id = running[q].id
         /\ running[p].pc = "done" /\ running[q].pc = "done") =>
            /\ ~(running[p].err = NoErr /\ running[q].err = NoErr)
            /\ ~(running[p].wrote /\ running[q].wrote)
====
